---------------------------- MODULE Spec2Model ----------------------------
(***************************************************************************)
(* A model of the job-autopilot adapter-and-pipeline core: the adapter     *)
(* registry, the apply adapters (generic form and LinkedIn Easy Apply),    *)
(* the pipeline stage functions and the application tracker.               *)
(*                                                                         *)
(* Strings the code inspects character by character (URLs, the patterns of *)
(* canHandleUrl, the base64 text of a job id) are sequences of character   *)
(* codes; all other text is an opaque string.                              *)
(***************************************************************************)
EXTENDS Integers, Sequences, FiniteSets, TLC

(***************************************************************************)
(* Bounds of the model.                                                    *)
(***************************************************************************)
\* rows the applications table may hold
MaxJobs == 2
\* rows the table may hold while the stage functions run on them
MaxStaged == 1
\* lines of a jobs file
MaxLines == 2
\* largest value of the logical clock behind CURRENT_TIMESTAMP / Date.now()
MaxClock == 1
\* longest Easy Apply form (Next steps before the last step) that is tried
MaxFormSteps == 4
\* largest --limit of a batch apply
MaxLimit == 2
\* adapters registered in a registry a client builds
MaxAdapters == 3
\* lines of a jobs file read line by line, and discoverFromFile calls on it
MaxFileLines == 3
MaxReads == 2
\* characters of a stored text that is exported
MaxText == 2

(***************************************************************************)
(* Text helpers.                                                           *)
(***************************************************************************)
\* SQL NULL / JavaScript undefined and null for a text value
Null == "<null>"
\* unset DATETIME column
NoTime == -1

Min(a, b) == IF a < b THEN a ELSE b

\* String.prototype.includes / RegExp.test of a literal pattern:
\* pat occurs in s as a contiguous substring
Contains(s, pat) ==
  \E i \in 0..(Len(s) - Len(pat)) :
     \A k \in 1..Len(pat) : s[i + k] = pat[k]

\* JavaScript truthiness of a text value: undefined, null and '' are falsy
Truthy(v) == v # Null /\ v # ""

\* a || b
OrElse(a, b) == IF Truthy(a) THEN a ELSE b

(***************************************************************************)
(* The job URLs the model discovers and applies to.                        *)
(***************************************************************************)
\* "https://boards.greenhouse.io/acme/jobs/1"
UrlGreenhouseA ==
  <<
     104, 116, 116, 112, 115, 58, 47, 47, 98, 111, 97, 114, 100, 115,
     46, 103, 114, 101, 101, 110, 104, 111, 117, 115, 101, 46, 105, 111,
     47, 97, 99, 109, 101, 47, 106, 111, 98, 115, 47, 49
  >>
\* "https://boards.greenhouse.io/acme/jobs/2"
UrlGreenhouseB ==
  <<
     104, 116, 116, 112, 115, 58, 47, 47, 98, 111, 97, 114, 100, 115,
     46, 103, 114, 101, 101, 110, 104, 111, 117, 115, 101, 46, 105, 111,
     47, 97, 99, 109, 101, 47, 106, 111, 98, 115, 47, 50
  >>
\* "https://jobs.lever.co/acme/a1"
UrlLever ==
  <<
     104, 116, 116, 112, 115, 58, 47, 47, 106, 111, 98, 115, 46, 108,
     101, 118, 101, 114, 46, 99, 111, 47, 97, 99, 109, 101, 47, 97,
     49
  >>
\* "https://acme.myworkdayjobs.com/j/1"
UrlWorkday ==
  <<
     104, 116, 116, 112, 115, 58, 47, 47, 97, 99, 109, 101, 46, 109,
     121, 119, 111, 114, 107, 100, 97, 121, 106, 111, 98, 115, 46, 99,
     111, 109, 47, 106, 47, 49
  >>
\* "https://www.linkedin.com/jobs/view/1"
UrlLinkedIn ==
  <<
     104, 116, 116, 112, 115, 58, 47, 47, 119, 119, 119, 46, 108, 105,
     110, 107, 101, 100, 105, 110, 46, 99, 111, 109, 47, 106, 111, 98,
     115, 47, 118, 105, 101, 119, 47, 49
  >>
\* "https://example.com/careers/1"
UrlUnknown ==
  <<
     104, 116, 116, 112, 115, 58, 47, 47, 101, 120, 97, 109, 112, 108,
     101, 46, 99, 111, 109, 47, 99, 97, 114, 101, 101, 114, 115, 47,
     49
  >>
Urls ==
  {UrlGreenhouseA, UrlGreenhouseB, UrlLever, UrlWorkday, UrlLinkedIn, UrlUnknown}

(***************************************************************************)
(* canHandleUrl patterns of the adapters.                                  *)
(***************************************************************************)
\* /boards\.greenhouse\.io/
PatGreenhouse ==
  <<
     98, 111, 97, 114, 100, 115, 46, 103, 114, 101, 101, 110, 104, 111,
     117, 115, 101, 46, 105, 111
  >>
\* /jobs\.lever\.co/
PatLever ==
  <<
     106, 111, 98, 115, 46, 108, 101, 118, 101, 114, 46, 99, 111
  >>
\* /myworkdayjobs\.com/
PatWorkday ==
  <<
     109, 121, 119, 111, 114, 107, 100, 97, 121, 106, 111, 98, 115, 46,
     99, 111, 109
  >>
\* /linkedin\.com\/jobs/
PatLinkedIn ==
  <<
     108, 105, 110, 107, 101, 100, 105, 110, 46, 99, 111, 109, 47, 106,
     111, 98, 115
  >>

(***************************************************************************)
(* Job ids: platform, '-', and the first 16 characters of the base64 text  *)
(* of the URL.                                                             *)
(***************************************************************************)
\* index of the '=' padding character in the output alphabet
Pad == 64
\* characters of the base64 text kept in a job id
JobIdChars == 16

\* Buffer.from(s).toString('base64'): the sextets of the encoded text
RECURSIVE Base64(_)
Base64(bytes) ==
  IF Len(bytes) = 0 THEN <<>>
  ELSE IF Len(bytes) = 1 THEN
    << bytes[1] \div 4, (bytes[1] % 4) * 16, Pad, Pad >>
  ELSE IF Len(bytes) = 2 THEN
    << bytes[1] \div 4,
       (bytes[1] % 4) * 16 + (bytes[2] \div 16),
       (bytes[2] % 16) * 4,
       Pad >>
  ELSE
    << bytes[1] \div 4,
       (bytes[1] % 4) * 16 + (bytes[2] \div 16),
       (bytes[2] % 16) * 4 + (bytes[3] \div 64),
       bytes[3] % 64 >> \o Base64(SubSeq(bytes, 4, Len(bytes)))

\* String.prototype.slice(0, n)
Slice(s, n) == SubSeq(s, 1, Min(n, Len(s)))

\* the base64 part of the job id of every model URL
UrlCode == [u \in Urls |-> Slice(Base64(u), JobIdChars)]

\* job.job_id || `${job.platform || 'job'}-${base64(url).slice(0, 16)}`
DeriveJobId(platform, url) ==
  [platform |-> OrElse(platform, "job"), code |-> UrlCode[url]]

(***************************************************************************)
(* Adapters and the adapter registry.                                      *)
(***************************************************************************)
GreenhouseJobSourceAdapter ==
  [type |-> "job-source", id |-> "greenhouse-source", any |-> FALSE,
   pat |-> PatGreenhouse, enrichment |-> TRUE]
LeverJobSourceAdapter ==
  [type |-> "job-source", id |-> "lever-source", any |-> FALSE,
   pat |-> PatLever, enrichment |-> TRUE]
WorkdayJobSourceAdapter ==
  [type |-> "job-source", id |-> "workday-source", any |-> FALSE,
   pat |-> PatWorkday, enrichment |-> TRUE]
GreenhouseApplyAdapter ==
  [type |-> "apply", id |-> "greenhouse-apply", any |-> FALSE,
   pat |-> PatGreenhouse, enrichment |-> FALSE]
LeverApplyAdapter ==
  [type |-> "apply", id |-> "lever-apply", any |-> FALSE,
   pat |-> PatLever, enrichment |-> FALSE]
WorkdayApplyAdapter ==
  [type |-> "apply", id |-> "workday-apply", any |-> FALSE,
   pat |-> PatWorkday, enrichment |-> FALSE]
LinkedInApplyAdapter ==
  [type |-> "apply", id |-> "linkedin-apply", any |-> FALSE,
   pat |-> PatLinkedIn, enrichment |-> FALSE]
GenericFormApplyAdapter ==
  [type |-> "apply", id |-> "generic-form", any |-> TRUE,
   pat |-> <<>>, enrichment |-> FALSE]

\* Array.prototype.find returned undefined
NoAdapter ==
  [type |-> "none", id |-> Null, any |-> FALSE, pat |-> <<>>,
   enrichment |-> FALSE]

\* adapter.canHandleUrl(url)
CanHandleUrl(adapter, url) == adapter.any \/ Contains(url, adapter.pat)

\* new AdapterRegistry()
EmptyRegistry == [jobSources |-> <<>>, applyAdapters |-> <<>>]

\* registry.register(adapter)
Register(reg, adapter) ==
  [jobSources |->
     IF adapter.type = "job-source"
     THEN Append(reg.jobSources, adapter) ELSE reg.jobSources,
   applyAdapters |->
     IF adapter.type = "apply"
     THEN Append(reg.applyAdapters, adapter) ELSE reg.applyAdapters]

\* createDefaultRegistry registering the generic form adapter before the
\* platform adapters
GenericFirstRegistrations ==
  << GenericFormApplyAdapter, GreenhouseJobSourceAdapter,
     LeverJobSourceAdapter, WorkdayJobSourceAdapter, GreenhouseApplyAdapter,
     LeverApplyAdapter, WorkdayApplyAdapter, LinkedInApplyAdapter >>

\* the registrations of createDefaultRegistry, in order
DefaultRegistrations ==
  << GreenhouseJobSourceAdapter, LeverJobSourceAdapter,
     WorkdayJobSourceAdapter, GreenhouseApplyAdapter, LeverApplyAdapter,
     WorkdayApplyAdapter, LinkedInApplyAdapter, GenericFormApplyAdapter >>

RECURSIVE RegisterAll(_, _)
RegisterAll(reg, adapters) ==
  IF adapters = <<>> THEN reg
  ELSE RegisterAll(Register(reg, Head(adapters)), Tail(adapters))

createDefaultRegistry == RegisterAll(EmptyRegistry, DefaultRegistrations)

\* a lookup that returns the last adapter of the list that handles the URL
FindLastAdapter(adapters, url) ==
  IF \E i \in 1..Len(adapters) : CanHandleUrl(adapters[i], url)
  THEN adapters[CHOOSE i \in 1..Len(adapters) :
                  /\ CanHandleUrl(adapters[i], url)
                  /\ \A k \in (i + 1)..Len(adapters) :
                       ~CanHandleUrl(adapters[k], url)]
  ELSE NoAdapter

\* Array.prototype.find: the first adapter of the list that handles the URL
FindAdapter(adapters, url) ==
  IF \E i \in 1..Len(adapters) : CanHandleUrl(adapters[i], url)
  THEN adapters[CHOOSE i \in 1..Len(adapters) :
                  /\ CanHandleUrl(adapters[i], url)
                  /\ \A k \in 1..(i - 1) : ~CanHandleUrl(adapters[k], url)]
  ELSE NoAdapter

getJobSourceForUrl(reg, url) == FindAdapter(reg.jobSources, url)

getApplyAdapterForUrl(reg, url) == FindAdapter(reg.applyAdapters, url)

\* the registry of the pipeline created by createPipeline
registry == createDefaultRegistry

(***************************************************************************)
(* Browser session helper.                                                 *)
(***************************************************************************)
\* navigation retries of the generic form adapter
NavRetries == 2

\* navigateWithRetries: the first navFails calls of page.goto fail.
\* attempt runs 0..retries; the error of the last attempt is rethrown.
RECURSIVE navigateWithRetries(_, _, _)
navigateWithRetries(navFails, retries, attempt) ==
  IF attempt > retries THEN [ok |-> FALSE, threw |-> FALSE, attempts |-> attempt]
  ELSE IF attempt >= navFails THEN
    [ok |-> TRUE, threw |-> FALSE, attempts |-> attempt + 1]
  ELSE IF attempt = retries THEN
    [ok |-> FALSE, threw |-> TRUE, attempts |-> attempt + 1]
  ELSE navigateWithRetries(navFails, retries, attempt + 1)

\* detectFriction: the friction keywords found in the page text, by priority
detectFriction(content) ==
  IF "captcha" \in content THEN "captcha"
  ELSE IF "two-factor" \in content THEN "two-factor"
  ELSE IF "are you human" \in content THEN "bot-check"
  ELSE Null

\* captureArtifacts: Object.values of {screenshotPath, htmlPath}
captureArtifacts(runDir, label) ==
  << [run |-> runDir, label |-> label, ext |-> "png"],
     [run |-> runDir, label |-> label, ext |-> "html"] >>

(***************************************************************************)
(* What an adapter did to the page during one attempt.                     *)
(***************************************************************************)
NoEffects ==
  [launched |-> FALSE, closed |-> FALSE, navAttempts |-> 0, fills |-> 0,
   uploads |-> 0, atSubmit |-> FALSE, submitClicks |-> 0,
   credentials |-> FALSE, steps |-> 0]

\* how an applyAssisted call ends: the fields of the value its promise
\* settles with (threw: it rejected) and what was done to the page.  label is
\* the label of the captureArtifacts call whose paths are returned as
\* artifacts, Null when the result carries none
Outcome(status, reason, notes, label, threw, effects) ==
  [status |-> status, reason |-> reason, notes |-> notes,
   label |-> label, threw |-> threw, effects |-> effects]

(***************************************************************************)
(* Generic form apply adapter.                                             *)
(***************************************************************************)
\* a ?? b
Coalesce(a, b) == IF a = Null THEN b ELSE a

\* clickSubmitIfAllowed without the test of mode: only dryRun holds it back
clickSubmitIgnoringMode(hasSubmitButton, mode, dryRun) ==
  IF dryRun = "true" THEN FALSE
  ELSE hasSubmitButton

\* clickSubmitIfAllowed without the test of dryRun: mode 'auto' clicks
clickSubmitIgnoringDryRun(hasSubmitButton, mode, dryRun) ==
  IF mode # "auto" THEN FALSE
  ELSE hasSubmitButton

\* clickSubmitIfAllowed: TRUE when the submit button is clicked
clickSubmitIfAllowed(hasSubmitButton, mode, dryRun) ==
  IF mode # "auto" \/ dryRun = "true" THEN FALSE
  ELSE hasSubmitButton

\* uploadResume: TRUE when the file was attached to a resume/cv file input
uploadResume(hasResumeInput, resumePath) ==
  IF ~Truthy(resumePath) THEN FALSE ELSE hasResumeInput

\* the catch block of applyAssisted: the n-th captureArtifacts call of the
\* attempt; when it throws, the promise rejects after the browser is closed
GenericCatch(env, reason, n, eff) ==
  IF n <= env.captureFails
  THEN Outcome(Null, "capture failed", Null, Null, TRUE,
               [eff EXCEPT !.closed = TRUE])
  ELSE Outcome("failed", reason, Null, "error", FALSE,
               [eff EXCEPT !.closed = TRUE])

\* GenericFormApplyAdapter.applyAssisted(job, options): launchBrowser and
\* browser.newPage() are awaited before the try block, so that a rejection of
\* either leaves the function at once, without the finally block
GenericApplyAssisted(options, env) ==
  IF ~env.launchOk
  THEN Outcome(Null, "launch failed", Null, Null, TRUE, NoEffects)
  ELSE IF ~env.pageOk
  THEN Outcome(Null, "new page failed", Null, Null, TRUE,
               [NoEffects EXCEPT !.launched = TRUE])
  ELSE
    LET nav  == navigateWithRetries(env.navFails, NavRetries, 0)
        eff0 == [NoEffects EXCEPT !.launched = TRUE,
                                  !.navAttempts = nav.attempts]
        friction == detectFriction(env.content)
        uploaded == uploadResume(env.hasResumeInput, options.resumePath)
        clicked  == clickSubmitIfAllowed(env.hasSubmitButton,
                                         OrElse(options.mode, "assisted"),
                                         Coalesce(options.dryRun, "true"))
        eff1 == [eff0 EXCEPT !.fills = 1, !.atSubmit = TRUE,
                             !.uploads = IF uploaded THEN 1 ELSE 0,
                             !.submitClicks = IF clicked THEN 1 ELSE 0]
    IN
    IF nav.threw THEN GenericCatch(env, "navigation failed", 1, eff0)
    ELSE IF friction # Null THEN
      IF env.captureFails >= 1
      THEN GenericCatch(env, "capture failed", 2, eff0)
      ELSE Outcome("blocked", friction, Null, "friction", FALSE,
                   [eff0 EXCEPT !.closed = TRUE])
    ELSE
      IF env.captureFails >= 1
      THEN GenericCatch(env, "capture failed", 2, eff1)
      ELSE Outcome(IF clicked THEN "submitted" ELSE "needs_review", Null,
                   IF uploaded THEN "Resume uploaded" ELSE "Resume not uploaded",
                   "review", FALSE, [eff1 EXCEPT !.closed = TRUE])

(***************************************************************************)
(* LinkedIn Easy Apply.                                                    *)
(*                                                                         *)
(* An Easy Apply form has n steps with a Next-like button followed by a    *)
(* last step that shows either a Submit button or no button at all.        *)
(* labels says what the Next-like buttons read: "same" (all "Next"),       *)
(* "alternating" ("Next", "Continue", "Next", ...) or "long" ("Next step", *)
(* which findButton matches but the exact-text lookup does not).  The      *)
(* button of step stuckAt does not advance the form (0: every one does).   *)
(***************************************************************************)
\* const maxAttempts = 10
maxAttempts == 10
\* sameButtonCount >= 3
StuckThreshold == 3

LabelAt(form, pos) ==
  IF form.labels = "same" THEN "Next"
  ELSE IF form.labels = "alternating"
       THEN (IF pos % 2 = 1 THEN "Next" ELSE "Continue")
  ELSE "Next step"

\* buttonsInfo.find(b => ['next', 'review', 'continue'].includes(b.toLowerCase()))
ExactButtonText(label) ==
  IF label \in {"Next", "Review", "Continue"} THEN label ELSE Null

\* the result object of fillEasyApplyForm / applyToCurrentJob / applyToJob
FormResult(success, requiresReview, error, blocked, eff) ==
  [success |-> success, requiresReview |-> requiresReview, error |-> error,
   blocked |-> blocked, effects |-> eff]

\* the while loop of fillEasyApplyForm, from the state at the top of an
\* iteration: pos is the form step the modal shows
RECURSIVE FormLoop(_, _, _, _, _, _, _)
FormLoop(opts, env, attempts, pos, lastButtonText, sameButtonCount, eff) ==
  IF attempts >= maxAttempts
  THEN FormResult(FALSE, FALSE, "Exceeded max form attempts", FALSE, eff)
  ELSE
    LET form   == env.form
        submitBtn == pos = form.n + 1 /\ form.final = "submit"
        nextBtn   == pos <= form.n
        eff1 == [eff EXCEPT !.steps = @ + 1, !.fills = @ + 1,
                   !.uploads = IF Truthy(opts.resumePath) /\ env.hasResumeInput
                               THEN @ + 1 ELSE @]
        currentButtonText ==
          IF submitBtn THEN "submit"
          ELSE IF nextBtn THEN OrElse(ExactButtonText(LabelAt(form, pos)), "")
          ELSE ""
        repeated == currentButtonText # "" /\ currentButtonText = lastButtonText
        count1 == IF repeated THEN sameButtonCount + 1 ELSE 0
        last1  == IF repeated THEN lastButtonText ELSE currentButtonText
    IN
    IF repeated /\ count1 >= StuckThreshold
    THEN FormResult(FALSE, FALSE, "Form stuck - likely missing required fields",
                    FALSE, eff1)
    ELSE IF submitBtn THEN
      IF ~opts.autoSubmit \/ opts.dryRun
      THEN FormResult(FALSE, TRUE, Null, FALSE,
                      [eff1 EXCEPT !.atSubmit = TRUE])
      ELSE FormResult(env.successShown, FALSE, Null, FALSE,
                      [eff1 EXCEPT !.atSubmit = TRUE, !.submitClicks = @ + 1])
    ELSE IF nextBtn THEN
      FormLoop(opts, env, attempts + 1,
               IF form.stuckAt = pos THEN pos ELSE pos + 1,
               last1, count1, eff1)
    ELSE FormResult(FALSE, FALSE, "No next or submit button found", FALSE, eff1)

\* LinkedInAutoApply.fillEasyApplyForm
fillEasyApplyForm(opts, env, eff) ==
  IF ~env.modal
  THEN FormResult(FALSE, FALSE, "Easy Apply modal did not appear", FALSE, eff)
  ELSE FormLoop(opts, env, 0, 1, "", 0, eff)

\* LinkedInAutoApply.applyToCurrentJob (applicationsThisSession is 0 < maxApps
\* for the fresh instance the adapter creates)
applyToCurrentJob(opts, env, eff) ==
  LET friction == detectFriction(env.content) IN
  IF friction # Null
  THEN FormResult(FALSE, FALSE, "Blocked by " \o friction, TRUE, eff)
  ELSE IF ~env.easyApply
  THEN FormResult(FALSE, FALSE, "Not an Easy Apply job", FALSE, eff)
  ELSE IF env.alreadyApplied
  THEN FormResult(FALSE, FALSE, "Already applied", FALSE, eff)
  ELSE fillEasyApplyForm(opts, env, eff)

\* LinkedInAutoApply.applyToJob(jobUrl): one page.goto, errors are caught
applyToJob(opts, env, eff) ==
  LET eff1 == [eff EXCEPT !.navAttempts = 1] IN
  IF env.navFails >= 1
  THEN FormResult(FALSE, FALSE, "navigation failed", FALSE, eff1)
  ELSE applyToCurrentJob(opts, env, eff1)

\* LinkedInApplyAdapter.applyAssisted(job, options)
LinkedInApplyAssisted(options, env) ==
  LET opts == [resumePath |-> options.resumePath,
               autoSubmit |-> options.mode = "auto",
               dryRun |-> Coalesce(options.dryRun, "false") = "true"]
      eff0 == [NoEffects EXCEPT !.launched = TRUE,
                                !.credentials = env.session = "login"]
  IN
  IF ~env.launchOk
  THEN Outcome(Null, "launch failed", Null, Null, TRUE, NoEffects)
  ELSE IF env.session = "none"
  THEN Outcome("blocked", "login-required", Null, Null, FALSE,
               [eff0 EXCEPT !.closed = TRUE])
  ELSE
    LET result == applyToJob(opts, env, eff0)
        eff    == [result.effects EXCEPT !.closed = TRUE]
    IN
    IF result.requiresReview
    THEN Outcome("needs_review", Null,
                 "LinkedIn Easy Apply paused before submit.", Null, FALSE, eff)
    ELSE Outcome(IF result.success THEN "submitted" ELSE "failed",
                 result.error, Null, Null, FALSE, eff)

\* adapter.applyAssisted(job, options), by the adapter the registry selected:
\* the Greenhouse, Lever and Workday apply adapters delegate to the generic one
applyAssisted(adapter, options, env) ==
  IF adapter.id = "linkedin-apply"
  THEN LinkedInApplyAssisted(options, env)
  ELSE GenericApplyAssisted(options, env)

\* result.artifacts || []: the paths captureArtifacts wrote under the run
\* directory of the attempt
ArtifactsOf(runDir, label) ==
  IF label = Null THEN <<>> ELSE captureArtifacts(runDir, label)

(***************************************************************************)
(* Inputs of an apply attempt: the options the caller passes and the       *)
(* environment (browser, network, page) the adapter meets.                 *)
(***************************************************************************)
\* options.mode: absent, 'assisted' or 'auto'
Modes == {Null, "assisted", "auto"}
\* options.dryRun: absent, true or false
DryRuns == {Null, "true", "false"}
\* options.resumePath: absent or the path of the generated resume
ResumePaths == {Null, "resume"}

\* friction keywords in the text of the job page when it is first read
PageContents == {{}, {"captcha"}, {"two-factor"}, {"are you human"}}
\* friction keywords that show up after that first read (at a later step)
LaterContents == {{}, {"two-factor"}}

Forms ==
  { f \in [n : 0..MaxFormSteps, labels : {"same", "alternating", "long"},
           final : {"submit", "none"}, stuckAt : 0..MaxFormSteps] :
      /\ f.stuckAt <= f.n
      /\ f.n = 0 => f.labels = "same" }

DefaultForm == [n |-> 0, labels |-> "same", final |-> "submit", stuckAt |-> 0]

\* a page that loads at once, shows a form with a submit button and a resume
\* input, in a browser with a logged-in LinkedIn session.  pageOk: the
\* browser.newPage() call of the generic form adapter succeeds
DefaultEnv ==
  [launchOk |-> TRUE, pageOk |-> TRUE, navFails |-> 0, content |-> {}, later |-> {},
   captureFails |-> 0, hasSubmitButton |-> TRUE, hasResumeInput |-> TRUE,
   session |-> "cookie", easyApply |-> TRUE, alreadyApplied |-> FALSE,
   modal |-> TRUE, form |-> DefaultForm, successShown |-> TRUE]

\* environments of the generic form adapter: the browser does not launch or
\* opens no page, or no navigation attempt succeeds, or a page is loaded
GenericEnvs ==
  {[DefaultEnv EXCEPT !.launchOk = FALSE]}
  \cup {[DefaultEnv EXCEPT !.pageOk = FALSE]}
  \cup {[DefaultEnv EXCEPT !.navFails = NavRetries + 1, !.captureFails = c] :
          c \in 0..1}
  \cup {[DefaultEnv EXCEPT !.navFails = nf, !.content = pc, !.later = lc,
                           !.captureFails = c, !.hasSubmitButton = sb,
                           !.hasResumeInput = ri] :
          nf \in 0..NavRetries, pc \in PageContents, lc \in LaterContents,
          c \in 0..2, sb \in BOOLEAN, ri \in BOOLEAN}

\* environments of the LinkedIn adapter: no launch, no session, navigation
\* fails, or the job page is loaded
LinkedInEnvs ==
  {[DefaultEnv EXCEPT !.launchOk = FALSE]}
  \cup {[DefaultEnv EXCEPT !.session = "none"]}
  \cup {[DefaultEnv EXCEPT !.session = s, !.navFails = 1] :
          s \in {"cookie", "login"}}
  \cup {[DefaultEnv EXCEPT !.session = s, !.content = pc] :
          s \in {"cookie", "login"}, pc \in PageContents \ {{}}}
  \cup {[DefaultEnv EXCEPT !.easyApply = ea, !.alreadyApplied = aa,
                           !.modal = m] :
          ea \in BOOLEAN, aa \in BOOLEAN, m \in BOOLEAN}
  \cup {[DefaultEnv EXCEPT !.later = lc, !.form = f, !.successShown = ss,
                           !.hasResumeInput = ri] :
          lc \in LaterContents, f \in Forms, ss \in BOOLEAN, ri \in BOOLEAN}

EnvsOf(adapter) ==
  IF adapter.id = "linkedin-apply" THEN LinkedInEnvs ELSE GenericEnvs

\* the environments applyJob is run against: a page that loads or never
\* loads, with or without friction, and any way the form of the page goes
\* that is not about the number of its steps (a browser that opens no page
\* ends a stage the way a browser that does not launch does)
StageEnvs(adapter) ==
  { e \in EnvsOf(adapter) :
      /\ e.pageOk
      /\ e.navFails \in {0, NavRetries + 1}
      /\ e.captureFails \in {0, 1}
      /\ e.content \in {{}, {"captcha"}, {"two-factor"}}
      /\ (e.content # {} => e.later = {} /\ e.captureFails = 0)
      /\ (e.later # {} => e.captureFails = 0)
      /\ e.hasResumeInput /\ e.hasSubmitButton /\ e.successShown
      /\ e.easyApply /\ ~e.alreadyApplied
      /\ e.session # "login"
      /\ e.modal
      /\ e.form.n <= 1 /\ e.form.labels = "same" /\ e.form.stuckAt = 0 }

(***************************************************************************)
(* Application tracker: the applications table, in rowid order.            *)
(***************************************************************************)
\* columns updateJob stores as text; artifact_paths and metadata hold the
\* JSON text of an array / object and are kept as the value that text parses
\* to (a NULL artifact_paths column is the empty list)
TextColumns ==
  {"job_url", "platform", "company", "title", "location", "status",
   "status_detail", "failure_category", "notes", "resume_path",
   "cover_letter_path"}

\* the row INSERT creates; discovered_at and updated_at default to
\* CURRENT_TIMESTAMP
NewRow(job, jobId, t) ==
  [job_id |-> jobId, job_url |-> job.job_url, platform |-> job.platform,
   company |-> job.company, title |-> job.title, location |-> job.location,
   status |-> OrElse(job.status, "discovered"), status_detail |-> Null,
   failure_category |-> Null, notes |-> Null, discovered_at |-> t,
   enriched_at |-> NoTime, prepared_at |-> NoTime, applied_at |-> NoTime,
   updated_at |-> t, resume_path |-> Null, cover_letter_path |-> Null,
   artifact_paths |-> <<>>, metadata |-> job.metadata]

\* index of the row with this job_id, 0 when there is none
RowOf(rows, jobId) ==
  IF \E i \in 1..Len(rows) : rows[i].job_id = jobId
  THEN CHOOSE i \in 1..Len(rows) : rows[i].job_id = jobId
  ELSE 0

\* addJob with INSERT OR REPLACE: the row of a known job_id is deleted and a
\* new row is inserted
addJobReplacing(rows, job, t) ==
  LET jobId == DeriveJobId(job.platform, job.job_url)
      kept  == SelectSeq(rows, LAMBDA r : r.job_id # jobId)
  IN [rows |-> Append(kept, NewRow(job, jobId, t)),
      jobId |-> jobId, inserted |-> TRUE]

\* ApplicationTracker.addJob(job): INSERT OR IGNORE on the UNIQUE job_id
addJob(rows, job, t) ==
  LET jobId    == DeriveJobId(job.platform, job.job_url)
      inserted == RowOf(rows, jobId) = 0
  IN [rows |-> IF inserted THEN Append(rows, NewRow(job, jobId, t)) ELSE rows,
      jobId |-> jobId, inserted |-> inserted]

\* the value updateJob binds for a text column: typeof null is 'object', so
\* a null is bound as JSON.stringify(null), the text 'null'
Serialize(v) == IF v = Null THEN "null" ELSE v

\* ApplicationTracker.updateJob(jobId, updates): SET the named columns and
\* updated_at WHERE job_id = jobId
updateJob(rows, jobId, updates, t) ==
  [i \in 1..Len(rows) |->
     IF rows[i].job_id # jobId THEN rows[i]
     ELSE [f \in DOMAIN rows[i] |->
             IF f \in DOMAIN updates
             THEN (IF f \in TextColumns THEN Serialize(updates[f])
                   ELSE updates[f])
             ELSE IF f = "updated_at" THEN t
             ELSE rows[i][f]]]

\* the columns that hold JSON text
JsonColumns == {"artifact_paths", "metadata"}

\* JSON.stringify(value) of an array or object: the text the column holds
\* (rows keeps the value the text stands for)
Stringify(v) == <<"json", v>>

\* ApplicationTracker.getJob(jobId): SELECT * FROM applications WHERE
\* job_id = ?, the row as it is stored: JSON columns come back as text
getJob(rows, jobId) ==
  LET i == RowOf(rows, jobId) IN
  IF i = 0 THEN Null
  ELSE [f \in DOMAIN rows[i] |->
          IF f \in JsonColumns THEN Stringify(rows[i][f]) ELSE rows[i][f]]

\* the orders ORDER BY discovered_at DESC may return these rows in: ties are
\* in no particular order
RowOrders(rows, idxs) ==
  { q \in [1..Cardinality(idxs) -> idxs] :
      /\ \A a, b \in 1..Cardinality(idxs) : a # b => q[a] # q[b]
      /\ \A a, b \in 1..Cardinality(idxs) :
           a < b => rows[q[a]].discovered_at >= rows[q[b]].discovered_at }

\* ApplicationTracker.getJobsByStatus(status, limit): the possible results,
\* as sequences of row indexes
getJobsByStatus(rows, status, limit) ==
  { SubSeq(q, 1, Min(limit, Len(q))) :
      q \in RowOrders(rows, {i \in 1..Len(rows) : rows[i].status = status}) }

\* findJobByUrl / tracker.getJob: the rows a job reference may resolve to.
\* By URL it is the first row of listJobs (ORDER BY discovered_at DESC) with
\* that job_url; no row means 'Job not found'
Resolve(rows, ref) ==
  IF ref.kind = "id"
  THEN {i \in 1..Len(rows) : rows[i].job_id = ref.id}
  ELSE {i \in 1..Len(rows) :
          /\ rows[i].job_url = ref.url
          /\ \A k \in 1..Len(rows) :
               rows[k].job_url = ref.url =>
                 rows[k].discovered_at <= rows[i].discovered_at}

(***************************************************************************)
(* Document builder.                                                       *)
(***************************************************************************)
\* generateResume calls job.company.replace and job.title.replace: a job
\* whose company or title is null or undefined makes buildDocuments throw
buildDocumentsThrows(job) == job.company = Null \/ job.title = Null

(***************************************************************************)
(* Pipeline stage functions, as functions of the table.                    *)
(***************************************************************************)
\* source?.id?.replace('-source', '') || 'generic'
SourceOf == [u \in Urls |-> getJobSourceForUrl(registry, u)]
\* the platform taken as the id of the source, '-source' included
PlatformOfId(url) ==
  LET source == SourceOf[url] IN
  IF source = NoAdapter THEN "generic" ELSE source.id
PlatformOf(url) ==
  LET source == SourceOf[url] IN
  IF source.id = "greenhouse-source" THEN "greenhouse"
  ELSE IF source.id = "lever-source" THEN "lever"
  ELSE IF source.id = "workday-source" THEN "workday"
  ELSE "generic"

\* lines of a jobs file: blank, blanks only, a comment, or a URL
LineBlank == <<>>
\* " "
LineSpace == <<32>>
\* "# x"
LineComment == <<35, 32, 120>>

\* " https://jobs.lever.co/acme/a1 "
LinePadded == <<32>> \o UrlLever \o <<32>>
Lines == Urls \cup {LineBlank, LineSpace, LineComment, LinePadded}

\* String.prototype.trim for the blank character
RECURSIVE TrimLeft(_)
TrimLeft(s) ==
  IF s # <<>> /\ Head(s) = 32 THEN TrimLeft(Tail(s)) ELSE s
RECURSIVE TrimRight(_)
TrimRight(s) ==
  IF s # <<>> /\ s[Len(s)] = 32 THEN TrimRight(SubSeq(s, 1, Len(s) - 1)) ELSE s
Trim(s) == TrimRight(TrimLeft(s))
\* the trimmed text of each line
Trimmed == [l \in Lines |-> Trim(l)]

\* .filter((line) => line && !line.startsWith('#'))
KeepLine(line) == line # <<>> /\ line[1] # 35

\* discoverFromFile building its job with a status of its own ('new')
FileJobNew(url) ==
  [job_url |-> url, platform |-> PlatformOf(url), company |-> Null,
   title |-> Null, location |-> Null, status |-> "new",
   metadata |-> {}]

\* the job discoverFromFile builds for a line
FileJob(url) ==
  [job_url |-> url, platform |-> PlatformOf(url), company |-> Null,
   title |-> Null, location |-> Null, status |-> "discovered",
   metadata |-> {}]

\* discoverFromFile: the loop over the lines, from line k on
RECURSIVE discoverLines(_, _, _, _, _)
discoverLines(rows, lines, k, results, t) ==
  IF k > Len(lines) THEN [rows |-> rows, results |-> results]
  ELSE
    LET url == Trimmed[lines[k]] IN
    IF ~KeepLine(url) THEN discoverLines(rows, lines, k + 1, results, t)
    ELSE
      LET record == addJob(rows, FileJob(url), t) IN
      discoverLines(record.rows, lines, k + 1,
                    Append(results, [url |-> url, jobId |-> record.jobId,
                                     inserted |-> record.inserted]), t)

discoverFromFile(rows, lines, t) == discoverLines(rows, lines, 1, <<>>, t)

\* what the job-source adapter's enrich(jobUrl) may give: every field, the
\* fields of a page whose elements are absent (empty text), the fields of an
\* API answer without location and content (undefined), or a network error
EnrichFull ==
  [threw |-> FALSE, title |-> "Engineer", company |-> "Acme",
   location |-> "Remote", description |-> "Build things"]
EnrichSparse ==
  [threw |-> FALSE, title |-> "", company |-> "acme", location |-> "",
   description |-> ""]
EnrichPartial ==
  [threw |-> FALSE, title |-> "Engineer", company |-> "acme",
   location |-> Null, description |-> Null]
EnrichError ==
  [threw |-> TRUE, title |-> Null, company |-> Null, location |-> Null,
   description |-> Null]
EnrichResults == {EnrichFull, EnrichPartial, EnrichError}

\* JSON.stringify({...metadata, [key]: value}): a key whose value is
\* undefined is left out of the text
MetaPut(metadata, key, value) ==
  {p \in metadata : p[1] # key}
    \cup (IF value = Null THEN {} ELSE {<<key, value>>})

\* enrichJob for the resolved row i; job is the {...job, ...enriched} it
\* returns, as far as the document builder reads it
enrichJob(rows, i, res, t) ==
  LET job     == rows[i]
      adapter == SourceOf[job.job_url]
  IN
  IF adapter = NoAdapter \/ ~adapter.enrichment
  THEN [rows |-> rows, threw |-> FALSE, wrote |-> FALSE,
        job |-> [company |-> job.company, title |-> job.title]]
  ELSE IF res.threw
  THEN [rows |-> rows, threw |-> TRUE, wrote |-> FALSE,
        job |-> [company |-> job.company, title |-> job.title]]
  ELSE [rows |-> updateJob(rows, job.job_id,
                   [company |-> OrElse(res.company, job.company),
                    title |-> OrElse(res.title, job.title),
                    location |-> OrElse(res.location, job.location),
                    metadata |-> MetaPut(job.metadata, "description",
                                         res.description),
                    status |-> "enriched",
                    enriched_at |-> t], t),
        threw |-> FALSE, wrote |-> TRUE,
        job |-> [company |-> res.company, title |-> res.title]]

\* docs.resumePdfPath || docs.resumeTexPath: the path of the resume of the
\* job (the PDF, or the .tex source when the PDF could not be compiled)
ResumePath == "resume"

\* prepareJob for the resolved row i
prepareJob(rows, i, res, t) ==
  LET enriched == enrichJob(rows, i, res, t) IN
  IF enriched.threw \/ buildDocumentsThrows(enriched.job)
  THEN [rows |-> enriched.rows, threw |-> TRUE]
  ELSE [rows |-> updateJob(enriched.rows, rows[i].job_id,
                   [resume_path |-> ResumePath,
                    cover_letter_path |-> "cover-letter.txt",
                    status |-> "prepared",
                    prepared_at |-> t], t),
        threw |-> FALSE]

\* registry.getApplyAdapterForUrl(url) || the registered 'generic-form'
ApplyAdapterFor(url) ==
  LET adapter == getApplyAdapterForUrl(registry, url) IN
  IF adapter # NoAdapter THEN adapter
  ELSE IF \E k \in 1..Len(registry.applyAdapters) :
            registry.applyAdapters[k].id = "generic-form"
  THEN GenericFormApplyAdapter
  ELSE NoAdapter

ApplyAdapterOf == [u \in Urls |-> ApplyAdapterFor(u)]

\* one way an adapter.applyAssisted call made by applyJob can go: the
\* friction the page showed and the outcome of the call
AttemptOf(adapter, mode, dryRun, env) ==
  LET out == applyAssisted(adapter,
                           [resumePath |-> ResumePath, mode |-> mode,
                            dryRun |-> dryRun], env)
  IN [content |-> env.content, later |-> env.later,
      status |-> out.status, reason |-> out.reason, notes |-> out.notes,
      label |-> out.label, threw |-> out.threw,
      submitClicks |-> out.effects.submitClicks]

\* every such call, for each registered apply adapter and the mode and
\* dryRun applyJob can pass, over the environments of the adapter
ApplyAttempts ==
  [k \in 1..Len(registry.applyAdapters) |->
     [mode \in {"assisted", "auto"} |->
        [dryRun \in {"true", "false"} |->
           { AttemptOf(registry.applyAdapters[k], mode, dryRun, env) :
               env \in StageEnvs(registry.applyAdapters[k]) }]]]

\* buildDocuments or the adapter lookup threw: applyJob rejects before any
\* adapter call
EarlyThrow ==
  [content |-> {}, later |-> {}, status |-> Null, reason |-> "error",
   notes |-> Null, label |-> Null, threw |-> TRUE, submitClicks |-> 0]

\* applyJob without its dryRun = true default: an absent dryRun counts as
\* false
applyJobAttemptsNoDefault(job, mode, dryRun) ==
  LET adapter == ApplyAdapterOf[job.job_url] IN
  IF buildDocumentsThrows(job) \/ adapter = NoAdapter
  THEN {EarlyThrow}
  ELSE LET k == CHOOSE k \in 1..Len(registry.applyAdapters) :
                  registry.applyAdapters[k] = adapter
       IN ApplyAttempts[k][Coalesce(mode, "assisted")][Coalesce(dryRun, "false")]

\* applyJob up to the settled adapter.applyAssisted call, for the job row it
\* read: mode defaults to 'assisted' and dryRun to true
applyJobAttempts(job, mode, dryRun) ==
  LET adapter == ApplyAdapterOf[job.job_url] IN
  IF buildDocumentsThrows(job) \/ adapter = NoAdapter
  THEN {EarlyThrow}
  ELSE LET k == CHOOSE k \in 1..Len(registry.applyAdapters) :
                  registry.applyAdapters[k] = adapter
       IN ApplyAttempts[k][Coalesce(mode, "assisted")][Coalesce(dryRun, "true")]

\* the tracker.updateJob that ends applyJob; the run directory of the
\* attempt is `${job_id}-${Date.now()}`
applyJobWrite(rows, jobId, attempt, t) ==
  updateJob(rows, jobId,
    [status |-> OrElse(attempt.status, "failed"),
     status_detail |-> OrElse(attempt.notes, ""),
     failure_category |-> OrElse(attempt.reason, ""),
     applied_at |-> t,
     resume_path |-> ResumePath,
     cover_letter_path |-> "cover-letter.txt",
     artifact_paths |-> ArtifactsOf(<<jobId, t>>, attempt.label)], t)

(***************************************************************************)
(* Schema of the applications table.                                       *)
(***************************************************************************)
\* the columns of CREATE TABLE IF NOT EXISTS applications
ExpectedColumns ==
  {"id", "job_id", "job_url", "platform", "company", "title", "location",
   "status", "status_detail", "failure_category", "notes", "discovered_at",
   "enriched_at", "prepared_at", "applied_at", "updated_at", "resume_path",
   "cover_letter_path", "artifact_paths", "metadata"}

\* the columns init passes to ensureColumns
EnsuredColumns ==
  {"job_url", "platform", "status_detail", "failure_category", "enriched_at",
   "prepared_at", "applied_at", "updated_at", "resume_path",
   "cover_letter_path", "artifact_paths", "metadata"}

\* the columns of the applications table of the older tracker
LegacyColumns ==
  {"id", "job_id", "source", "company", "title", "location", "salary",
   "description", "requirements", "url", "posted_date", "discovered_at",
   "status", "tailored_at", "resume_path", "cover_letter_path", "sent_at",
   "email_sent_to", "response_received", "interview_scheduled", "rejected",
   "notes", "priority"}

\* a database file: the columns of its applications table (none: the file
\* has no such table) and the rows stored in it, one value per column
Table(columns, stored) == [columns |-> columns, stored |-> stored]
NoTable == Table({}, <<>>)

\* CREATE TABLE IF NOT EXISTS applications (...): nothing happens to a table
\* that exists
createTable(table) ==
  IF table.columns = {} THEN Table(ExpectedColumns, <<>>) ELSE table

\* ensureColumns(columns): ALTER TABLE applications ADD COLUMN for each
\* listed column that PRAGMA table_info does not show; the rows get NULL in
\* an added column.  The statements are queued on the connection before
\* the promise resolves and run ahead of every statement queued later.
ensureColumns(table, columns) ==
  LET missing == columns \ table.columns IN
  Table(table.columns \cup missing,
        [i \in 1..Len(table.stored) |->
           [c \in table.columns \cup missing |->
              IF c \in table.columns THEN table.stored[i][c] ELSE Null]])

\* ApplicationTracker.init()
init(table) == ensureColumns(createTable(table), EnsuredColumns)

\* the columns the statement of a tracker call names
StatementColumns(op) ==
  IF op = "addJob"
  THEN {"job_id", "job_url", "platform", "company", "title", "location",
        "status", "metadata"}
  ELSE IF op = "updateJob"
  THEN {"status", "notes", "updated_at", "job_id"}
  ELSE {"job_id"}

\* how SQLite answers the statement: an error when it names a column the
\* table does not have
StatementError(table, op) ==
  IF StatementColumns(op) \subseteq table.columns THEN Null
  ELSE "no such column"

(***************************************************************************)
(* Export.  Text is a sequence of characters; a stored value is NULL, an   *)
(* integer or a text.                                                      *)
(***************************************************************************)
NullValue == [type |-> "null", n |-> 0, text |-> <<>>]
NumberValue(n) == [type |-> "number", n |-> n, text |-> <<>>]
TextValue(s) == [type |-> "text", n |-> 0, text |-> s]

Digit == <<"0", "1", "2", "3", "4", "5", "6", "7", "8", "9">>

\* String(value) of an integer that is not negative
RECURSIVE Digits(_)
Digits(n) ==
  IF n < 10 THEN <<Digit[n + 1]>>
  ELSE Digits(n \div 10) \o <<Digit[(n % 10) + 1]>>

\* String(value)
String(value) ==
  IF value.type = "number" THEN Digits(value.n) ELSE value.text

\* s.replace(/"/g, '"') : quotes are left as they are
KeepQuotes(s) == s

\* s.replace(/"/g, '""')
RECURSIVE DoubleQuotes(_)
DoubleQuotes(s) ==
  IF s = <<>> THEN <<>>
  ELSE (IF Head(s) = "\"" THEN <<"\"", "\"">> ELSE <<Head(s)>>)
         \o DoubleQuotes(Tail(s))

\* the text exportCsv writes for one value
CsvValue(value) ==
  IF value.type = "null" THEN <<>>
  ELSE <<"\"">> \o DoubleQuotes(String(value)) \o <<"\"">>

\* parts.join(sep)
RECURSIVE Join(_, _)
Join(parts, sep) ==
  IF parts = <<>> THEN <<>>
  ELSE IF Len(parts) = 1 THEN parts[1]
  ELSE parts[1] \o <<sep>> \o Join(Tail(parts), sep)

\* ApplicationTracker.exportCsv() on the rows SELECT * returned: headers are
\* the names of the columns, in the order of the table, and a row holds the
\* values of its columns in that order
exportCsv(headers, selected) ==
  IF selected = <<>> THEN <<>>
  ELSE LET csvRows ==
             <<Join(headers, ",")>>
               \o [i \in 1..Len(selected) |->
                     Join([k \in 1..Len(headers) |-> CsvValue(selected[i][k])],
                          ",")]
       IN Join(csvRows, "\n")

\* ApplicationTracker.exportJson(): the rows as SELECT * returned them
exportJson(headers, selected) == selected

(***************************************************************************)
(* State.                                                                  *)
(***************************************************************************)
VARIABLES
  rows,      \* the applications table, in rowid order
  now,       \* the clock behind CURRENT_TIMESTAMP and Date.now()
  batch,     \* the batch apply command (cmdApply --batch)
  inFlight,  \* the adapter.applyAssisted invocations not yet settled
  last,      \* the pipeline call that completed last
  call,      \* the last direct adapter.applyAssisted call and its outcome
  adapterRegistry,  \* an AdapterRegistry instance as its client built it
  lookup,    \* the last lookup made on it since it was last changed
  file,      \* the lines of the jobs file discoverFromFile read last
  db,        \* the database file a tracker is constructed on
  exported,  \* what the last export returned
  adding     \* the addJob calls of two concurrent pipeline invocations

vars ==
  <<rows, now, batch, inFlight, last, call, adapterRegistry, lookup, file,
    db, exported, adding>>

\* the variables of the database file, the exports and the concurrent
\* callers
dbVars == <<db, exported, adding>>

NoId == [platform |-> Null, code |-> <<>>]

NoLast ==
  [op |-> "none", jobId |-> NoId, threw |-> FALSE, status |-> Null,
   content |-> {}, later |-> {}, submitClicks |-> 0, results |-> <<>>]

IdleBatch ==
  [pc |-> "idle", queue |-> <<>>, next |-> 1, mode |-> Null, dryRun |-> Null,
   limit |-> 0, started |-> <<>>, finished |-> <<>>]

NoCall ==
  [adapter |-> Null,
   options |-> [resumePath |-> Null, mode |-> Null, dryRun |-> Null],
   env |-> DefaultEnv,
   out |-> Outcome(Null, Null, Null, Null, FALSE, NoEffects)]

\* a tracker on the table of its database file: ready once init() resolved;
\* op and error are the last tracker call made on it and how SQLite answered
Tracker(ready, table) ==
  [ready |-> ready, table |-> table, op |-> Null, error |-> Null]

\* nothing was exported
NoExport == [headers |-> <<>>, selected |-> <<>>, csv |-> <<>>, json |-> <<>>]

\* a pipeline invocation that is not in addJob
IdleCaller ==
  [pc |-> "idle", url |-> <<>>, platform |-> Null, jobId |-> NoId,
   inserted |-> FALSE, known |-> FALSE]
Callers == {1, 2}

\* no lookup made yet
NoLookup == [kind |-> Null, url |-> <<>>, adapter |-> NoAdapter]

Init ==
  /\ rows = <<>>
  /\ now = 0
  /\ batch = IdleBatch
  /\ inFlight = <<>>
  /\ last = NoLast
  /\ call = NoCall
  /\ adapterRegistry = EmptyRegistry
  /\ lookup = NoLookup
  /\ file = <<>>
  /\ db = Tracker(TRUE, init(NoTable))
  /\ exported = NoExport
  /\ adding = [c \in Callers |-> IdleCaller]

\* the summary of a completed applyJob
LastApply(jobId, attempt) ==
  [op |-> "apply", jobId |-> jobId, threw |-> attempt.threw,
   status |-> attempt.status, content |-> attempt.content,
   later |-> attempt.later, submitClicks |-> attempt.submitClicks,
   results |-> <<>>]

LastOf(op, jobId, threw) ==
  [NoLast EXCEPT !.op = op, !.jobId = jobId, !.threw = threw]

(***************************************************************************)
(* Inputs of the tracker and pipeline calls.                               *)
(***************************************************************************)
\* a job as a discover() call or another tracker client passes it to addJob:
\* with the platform label of its URL, or without a platform
JobStub(u, p) ==
  [job_url |-> u, platform |-> p, company |-> "Acme", title |-> "Engineer",
   location |-> "Remote", status |-> Null, metadata |-> {}]
\* the jobs the tracker is called with: two whose ids share their first
\* characters, and a third
TrackerUrls == {UrlGreenhouseA, UrlGreenhouseB, UrlLever}
JobStubs ==
  { JobStub(u, PlatformOf(u)) : u \in TrackerUrls }
    \cup { JobStub(UrlLever, Null) }

\* the jobs the stage functions are run on: one whose platform has a job
\* source and an apply adapter that delegates to the generic form adapter,
\* and one handled by the LinkedIn adapter
StageUrls == {UrlGreenhouseA, UrlLinkedIn}
StageStubs == { JobStub(u, PlatformOf(u)) : u \in StageUrls }

\* the jobs files read by discoverFromFile
FilesOf(lines) == UNION { [1..n -> lines] : n \in 0..MaxLines }
Files ==
  FilesOf(TrackerUrls \cup {LineSpace, LinePadded})
StageFiles == FilesOf(StageUrls \cup {LineBlank, LineComment})

\* the id-or-URL argument of enrichJob, prepareJob and applyJob
MissingId == [platform |-> "job", code |-> <<>>]
JobRefs ==
  { [kind |-> "id", id |-> rows[i].job_id, url |-> <<>>] : i \in 1..Len(rows) }
  \cup { [kind |-> "id", id |-> MissingId, url |-> <<>>] }
  \cup { [kind |-> "url", id |-> NoId, url |-> u] : u \in StageUrls }

\* updates a tracker client passes to updateJob
TrackerUpdates == { [status |-> "enriched", notes |-> "seen"] }

\* more of them: the update of the tracker test, a column set to null (as
\* enrichJob does with `enriched.location || job.location` for a job
\* without a location) and an array value (as applyJob passes)
Patches ==
  TrackerUpdates
    \cup { [status |-> "prepared", notes |-> "Ready"],
           [location |-> Null],
           [artifact_paths |-> <<"error.png">>, status |-> "failed"] }

(***************************************************************************)
(* Tracker and pipeline calls.                                             *)
(***************************************************************************)
Tick ==
  /\ now < MaxClock
  /\ now' = now + 1
  /\ UNCHANGED <<dbVars, rows, batch, inFlight, last, call, adapterRegistry, lookup,
                 file>>

\* tracker.addJob(job), on a table that holds at most max rows
AddJob(job, max) ==
  LET record == addJob(rows, job, now) IN
  /\ batch.pc = "idle"
  /\ Len(record.rows) <= max
  /\ rows' = record.rows
  /\ last' = [LastOf("addJob", record.jobId, FALSE) EXCEPT
                !.results = <<[url |-> job.job_url, platform |-> job.platform,
                               inserted |-> record.inserted]>>]
  /\ UNCHANGED <<dbVars, now, batch, inFlight, call, adapterRegistry, lookup, file>>

\* what discoverFromFile(inputPath) does to the table, on a table that holds
\* at most max rows, and what it returns
Discovered(lines, max) ==
  LET found == discoverFromFile(rows, lines, now) IN
  /\ batch.pc = "idle"
  /\ Len(found.rows) <= max
  /\ rows' = found.rows
  /\ last' = [LastOf("discover", NoId, FALSE) EXCEPT
                !.results = [k \in 1..Len(found.results) |->
                               [url |-> found.results[k].url,
                                jobId |-> found.results[k].jobId,
                                platform |-> PlatformOf(found.results[k].url),
                                inserted |-> found.results[k].inserted]]]

\* discoverFromFile(inputPath)
DiscoverFromFile(lines, max) ==
  /\ Discovered(lines, max)
  /\ UNCHANGED <<dbVars, now, batch, inFlight, call, adapterRegistry, lookup, file>>

(***************************************************************************)
(* Calls of an AdapterRegistry instance.                                   *)
(***************************************************************************)
\* the adapters a client can register
Adapters ==
  { GreenhouseJobSourceAdapter, LeverJobSourceAdapter,
    WorkdayJobSourceAdapter, GreenhouseApplyAdapter, LeverApplyAdapter,
    WorkdayApplyAdapter, LinkedInApplyAdapter, GenericFormApplyAdapter }

Registered == Len(adapterRegistry.jobSources) + Len(adapterRegistry.applyAdapters)

\* adapterRegistry.register(adapter)
RegisterAdapter(adapter) ==
  /\ Registered < MaxAdapters
  /\ adapterRegistry' = Register(adapterRegistry, adapter)
  /\ lookup' = NoLookup
  /\ UNCHANGED <<dbVars, rows, now, batch, inFlight, last, call, file>>

\* adapterRegistry = createDefaultRegistry()
CreateDefaultRegistry ==
  /\ adapterRegistry = EmptyRegistry
  /\ adapterRegistry' = createDefaultRegistry
  /\ lookup' = NoLookup
  /\ UNCHANGED <<dbVars, rows, now, batch, inFlight, last, call, file>>

\* adapterRegistry.getJobSourceForUrl(url)
GetJobSourceForUrl(url) ==
  /\ lookup' = [kind |-> "job-source", url |-> url,
                adapter |-> getJobSourceForUrl(adapterRegistry, url)]
  /\ UNCHANGED <<dbVars, rows, now, batch, inFlight, last, call, adapterRegistry,
                 file>>

\* adapterRegistry.getApplyAdapterForUrl(url)
GetApplyAdapterForUrl(url) ==
  /\ lookup' = [kind |-> "apply", url |-> url,
                adapter |-> getApplyAdapterForUrl(adapterRegistry, url)]
  /\ UNCHANGED <<dbVars, rows, now, batch, inFlight, last, call, adapterRegistry,
                 file>>

\* tracker.updateJob(jobId, updates) for the job of row i
UpdateJob(i, updates) ==
  /\ batch.pc = "idle"
  /\ i \in 1..Len(rows)
  /\ rows' = updateJob(rows, rows[i].job_id, updates, now)
  /\ last' = [LastOf("updateJob", rows[i].job_id, FALSE) EXCEPT
                !.results = <<updates>>]
  /\ UNCHANGED <<dbVars, now, batch, inFlight, call, adapterRegistry, lookup, file>>

\* what a stage function called with an id or URL that matches no row gives
\* its caller: the argument and the message of the error
NotFound(ref) == <<[ref |-> ref, error |-> "Job not found"]>>

\* a stage function that returns its undefined job instead of throwing
JobNotFoundReturns(op, ref) ==
  /\ batch.pc = "idle"
  /\ Resolve(rows, ref) = {}
  /\ last' = [LastOf(op, NoId, FALSE) EXCEPT !.results = NotFound(ref)]
  /\ UNCHANGED <<dbVars, rows, now, batch, inFlight, call, adapterRegistry, lookup,
                 file>>

\* a stage function called with an id or URL that matches no row:
\* if (!job) throw new Error('Job not found')
JobNotFound(op, ref) ==
  /\ batch.pc = "idle"
  /\ Resolve(rows, ref) = {}
  /\ last' = [LastOf(op, NoId, TRUE) EXCEPT !.results = NotFound(ref)]
  /\ UNCHANGED <<dbVars, rows, now, batch, inFlight, call, adapterRegistry, lookup,
                 file>>

\* the adapter.enrich call a stage function made, if it made one, with what
\* the call gave
EnrichCalls(e, res) == IF e.wrote \/ e.threw THEN <<res>> ELSE <<>>

\* enrichJob(idOrUrl)
EnrichJob(ref, res) ==
  /\ batch.pc = "idle"
  /\ \E i \in Resolve(rows, ref) :
       LET e == enrichJob(rows, i, res, now) IN
       /\ rows' = e.rows
       /\ last' = [LastOf("enrich", rows[i].job_id, e.threw) EXCEPT
                     !.results = EnrichCalls(e, res)]
  /\ UNCHANGED <<dbVars, now, batch, inFlight, call, adapterRegistry, lookup, file>>

\* prepareJob(idOrUrl)
PrepareJob(ref, res) ==
  /\ batch.pc = "idle"
  /\ \E i \in Resolve(rows, ref) :
       LET p == prepareJob(rows, i, res, now) IN
       /\ rows' = p.rows
       /\ last' = [LastOf("prepare", rows[i].job_id, p.threw) EXCEPT
                     !.results = EnrichCalls(enrichJob(rows, i, res, now), res)]
  /\ UNCHANGED <<dbVars, now, batch, inFlight, call, adapterRegistry, lookup, file>>

\* what applyJob(idOrUrl, {mode, dryRun}) does to the table, and how it ends
ApplyJobCall(ref, mode, dryRun) ==
  /\ batch.pc = "idle"
  /\ \E i \in Resolve(rows, ref) :
       \E attempt \in applyJobAttempts(rows[i], mode, dryRun) :
         /\ rows' = IF attempt.threw THEN rows
                    ELSE applyJobWrite(rows, rows[i].job_id, attempt, now)
         /\ last' = LastApply(rows[i].job_id, attempt)

\* applyJob(idOrUrl, {mode, dryRun})
ApplyJob(ref, mode, dryRun) ==
  /\ ApplyJobCall(ref, mode, dryRun)
  /\ UNCHANGED <<dbVars, now, batch, inFlight, call, adapterRegistry, lookup, file>>

(***************************************************************************)
(* Batch apply: cmdApply with --batch.                                     *)
(***************************************************************************)
\* --limit values tried (Number(parsed.limit || 10))
Limits == 0..MaxLimit
\* parsed['dry-run']: absent, or present (true)
CliDryRuns == {Null, "true"}

\* parsed['dry-run'] ?? mode === 'assisted'
CliDryRun(flag, mode) ==
  IF flag # Null THEN flag
  ELSE IF mode = "assisted" THEN "true" ELSE "false"

\* the loop without the await: an iteration starts whether or not the
\* previous applyJob has settled
NoAwait == TRUE

\* `await applyJob(...)` in the for loop: the next iteration starts only
\* after the previous applyJob has settled
AwaitPrevious == inFlight = <<>>

\* the pull: tracker.getJobsByStatus('prepared', limit)
BatchStart(limit, cliMode, cliDryRun) ==
  /\ batch.pc = "idle"
  /\ \E q \in getJobsByStatus(rows, "prepared", limit) :
       batch' = [pc |-> "running",
                 queue |-> [k \in 1..Len(q) |-> rows[q[k]].job_id],
                 next |-> 1,
                 mode |-> OrElse(cliMode, "assisted"),
                 dryRun |-> CliDryRun(cliDryRun, OrElse(cliMode, "assisted")),
                 limit |-> limit, started |-> <<>>, finished |-> <<>>]
  /\ last' = NoLast
  /\ UNCHANGED <<dbVars, rows, now, inFlight, call, adapterRegistry, lookup, file>>

\* one loop iteration up to the adapter call: applyJob(job.job_id, ...) reads
\* the job, builds the documents and invokes adapter.applyAssisted; an error
\* thrown before the adapter call leaves the loop at once
BatchApplyBegin ==
  /\ batch.pc = "running"
  /\ batch.next <= Len(batch.queue)
  /\ AwaitPrevious
  /\ LET jobId == batch.queue[batch.next]
         job   == rows[RowOf(rows, jobId)]
     IN
     \E attempt \in applyJobAttempts(job, batch.mode, batch.dryRun) :
       /\ batch' = [batch EXCEPT
                      !.next = @ + 1,
                      !.started = Append(@, jobId),
                      !.pc = IF attempt = EarlyThrow THEN "crashed" ELSE @]
       /\ inFlight' = IF attempt = EarlyThrow THEN inFlight
                      ELSE Append(inFlight, [jobId |-> jobId, attempt |-> attempt])
       /\ last' = IF attempt = EarlyThrow THEN LastApply(jobId, attempt)
                  ELSE last
  /\ UNCHANGED <<dbVars, rows, now, call, adapterRegistry, lookup, file>>

\* the adapter call settles: applyJob writes the result to the tracker, or
\* the rejection propagates out of applyJob, the loop and cmdApply
BatchApplyEnd ==
  /\ batch.pc = "running"
  /\ inFlight # <<>>
  /\ LET jobId   == Head(inFlight).jobId
         attempt == Head(inFlight).attempt
     IN
     /\ rows' = IF attempt.threw THEN rows
                ELSE applyJobWrite(rows, jobId, attempt, now)
     /\ batch' = IF attempt.threw
                 THEN [batch EXCEPT !.pc = "crashed"]
                 ELSE [batch EXCEPT !.finished = Append(@, jobId)]
     /\ last' = LastApply(jobId, attempt)
  /\ inFlight' = Tail(inFlight)
  /\ UNCHANGED <<dbVars, now, call, adapterRegistry, lookup, file>>

\* the loop is over: tracker.close() and return
BatchFinish ==
  /\ batch.pc = "running"
  /\ batch.next > Len(batch.queue)
  /\ inFlight = <<>>
  /\ batch' = [batch EXCEPT !.pc = "done"]
  /\ UNCHANGED <<dbVars, rows, now, inFlight, last, call, adapterRegistry, lookup,
                 file>>

\* the command has ended; the next command starts from a fresh process
BatchExit ==
  /\ batch.pc \in {"done", "crashed"}
  /\ batch' = IdleBatch
  /\ last' = NoLast
  /\ UNCHANGED <<dbVars, rows, now, inFlight, call, adapterRegistry, lookup, file>>

(***************************************************************************)
(* Specifications.                                                         *)
(***************************************************************************)
\* the stage functions of the pipeline, run on the jobs of the table
Next ==
  \/ Tick
  \/ \E job \in StageStubs : AddJob(job, MaxStaged)
  \/ \E lines \in StageFiles : DiscoverFromFile(lines, MaxStaged)
  \/ \E op \in {"enrich", "prepare", "apply"}, ref \in JobRefs :
       JobNotFound(op, ref)
  \/ \E ref \in JobRefs, res \in EnrichResults : EnrichJob(ref, res)
  \/ \E ref \in JobRefs, res \in EnrichResults : PrepareJob(ref, res)
  \/ \E ref \in JobRefs, mode \in Modes, dryRun \in DryRuns :
       ApplyJob(ref, mode, dryRun)

Spec == Init /\ [][Next]_vars

\* the batch apply command, on jobs that were discovered and prepared
NextBatch ==
  \/ Tick
  \/ \E job \in StageStubs : AddJob(job, MaxJobs)
  \/ \E ref \in JobRefs : PrepareJob(ref, EnrichFull)
  \/ \E limit \in Limits, cliMode \in Modes, cliDryRun \in CliDryRuns :
       BatchStart(limit, cliMode, cliDryRun)
  \/ BatchApplyBegin
  \/ BatchApplyEnd
  \/ BatchFinish
  \/ BatchExit

SpecBatch == Init /\ [][NextBatch]_vars

\* the tracker, called by its clients
NextTracker ==
  \/ Tick
  \/ \E job \in JobStubs : AddJob(job, MaxJobs)
  \/ \E lines \in Files : DiscoverFromFile(lines, MaxJobs)
  \/ \E i \in 1..Len(rows), updates \in TrackerUpdates : UpdateJob(i, updates)

SpecTracker == Init /\ [][NextTracker]_vars

\* a registry built by register calls or by createDefaultRegistry, and the
\* lookups made on it
NextRegistry ==
  \/ \E adapter \in Adapters : RegisterAdapter(adapter)
  \/ CreateDefaultRegistry
  \/ \E url \in Urls : GetJobSourceForUrl(url)
  \/ \E url \in Urls : GetApplyAdapterForUrl(url)

SpecRegistry == Init /\ [][NextRegistry]_vars

\* the lines of the jobs files read line by line
FileLines ==
  {UrlGreenhouseA, UrlGreenhouseB, UrlLever, UrlUnknown, LineBlank,
   LineComment, LinePadded}
ReadFiles == UNION { [1..n -> FileLines] : n \in 0..MaxFileLines }

\* discoverFromFile runs, each at a later time than the one before
ReadJobsFile(lines) ==
  /\ now < MaxReads
  /\ Discovered(lines, Len(rows) + Len(lines))
  /\ file' = lines
  /\ now' = now + 1
  /\ UNCHANGED <<dbVars, batch, inFlight, call, adapterRegistry, lookup>>

NextDiscover == \E lines \in ReadFiles : ReadJobsFile(lines)

SpecDiscover == Init /\ [][NextDiscover]_vars

\* applyJob called by a client that passes these options (absent ones
\* included); the options of the call are kept for the properties
ApplyJobWith(ref, mode, dryRun) ==
  /\ ApplyJobCall(ref, mode, dryRun)
  /\ call' = [NoCall EXCEPT !.options.mode = mode, !.options.dryRun = dryRun]
  /\ UNCHANGED <<dbVars, now, batch, inFlight, adapterRegistry, lookup, file>>

\* jobs are discovered and applied to, with every choice of options
NextApply ==
  \/ Tick
  \/ \E job \in StageStubs : AddJob(job, MaxStaged)
  \/ \E ref \in JobRefs, mode \in Modes, dryRun \in DryRuns :
       ApplyJobWith(ref, mode, dryRun)

SpecApply == Init /\ [][NextApply]_vars

\* addJob and updateJob calls of a tracker client, with getJob after them
NextUpdate ==
  \/ Tick
  \/ \E job \in StageStubs : AddJob(job, MaxJobs)
  \/ \E i \in 1..Len(rows), updates \in Patches : UpdateJob(i, updates)

SpecUpdate == Init /\ [][NextUpdate]_vars

(***************************************************************************)
(* Direct calls of an apply adapter of the default registry.               *)
(***************************************************************************)
\* adapter.applyAssisted(job, options) for the adapter that owns the job URL
CallApplyAssisted(url, options, env) ==
  LET adapter == getApplyAdapterForUrl(registry, url) IN
  /\ call' = [adapter |-> adapter.id, options |-> options, env |-> env,
              out |-> applyAssisted(adapter, options, env)]
  /\ UNCHANGED <<dbVars, rows, now, batch, inFlight, last, adapterRegistry, lookup,
                 file>>

AdapterOptions ==
  [resumePath : ResumePaths, mode : Modes, dryRun : DryRuns]

\* a behaviour makes one direct call
NextAdapter ==
  /\ call = NoCall
  /\ \E url \in Urls, options \in AdapterOptions :
       \E env \in EnvsOf(getApplyAdapterForUrl(registry, url)) :
         CallApplyAssisted(url, options, env)

SpecAdapter == Init /\ [][NextAdapter]_vars

(***************************************************************************)
(* A tracker constructed on an existing database file.                     *)
(***************************************************************************)
\* columns that an existing table may lack
SomeColumns == {"job_url", "location", "notes", "applied_at", "metadata"}

\* a row written before the tracker is constructed
OldRow(columns) == [c \in columns |-> "old"]

\* the database files a tracker is constructed on: no applications table,
\* the table of the older tracker, or the expected table without some of
\* its columns; with a row or without one
ExistingTables ==
  {NoTable}
  \cup { Table(columns, stored) :
           columns \in {LegacyColumns}
                         \cup {ExpectedColumns \ m : m \in SUBSET SomeColumns},
           stored \in {<<>>} }
  \cup { Table(columns, <<OldRow(columns)>>) :
           columns \in {LegacyColumns}
                         \cup {ExpectedColumns \ m : m \in SUBSET SomeColumns} }

\* new ApplicationTracker(): this.ready = this.init()
TrackerInit ==
  /\ ~db.ready
  /\ db' = Tracker(TRUE, init(db.table))
  /\ UNCHANGED <<rows, now, batch, inFlight, last, call, adapterRegistry,
                 lookup, file, exported, adding>>

\* addJob, updateJob or getJob: await this.ensureReady(), then the statement
TrackerStatement(op) ==
  /\ db.ready
  /\ db.op = Null
  /\ db' = [db EXCEPT !.op = op, !.error = StatementError(db.table, op)]
  /\ UNCHANGED <<rows, now, batch, inFlight, last, call, adapterRegistry,
                 lookup, file, exported, adding>>

InitSchema ==
  /\ rows = <<>>
  /\ now = 0
  /\ batch = IdleBatch
  /\ inFlight = <<>>
  /\ last = NoLast
  /\ call = NoCall
  /\ adapterRegistry = EmptyRegistry
  /\ lookup = NoLookup
  /\ file = <<>>
  /\ db \in { Tracker(FALSE, table) : table \in ExistingTables }
  /\ exported = NoExport
  /\ adding = [c \in Callers |-> IdleCaller]

NextSchema ==
  \/ TrackerInit
  \/ \E op \in {"addJob", "updateJob", "getJob"} : TrackerStatement(op)

SpecSchema == InitSchema /\ [][NextSchema]_vars

(***************************************************************************)
(* Export of a table.                                                      *)
(***************************************************************************)
\* the characters of stored texts
Chars == {"a", ",", "\"", "\n"}
Texts == UNION { [1..n -> Chars] : n \in 0..MaxText }

\* the values a column holds
CellValues ==
  {NullValue, NumberValue(12)} \cup { TextValue(s) : s \in Texts }

\* the names of the columns of the exported table
ExportHeaders == << <<"i", "d">>, <<"n", "o", "t", "e", "s">> >>

\* the rows SELECT * returns: a first row of any values, and rows after it
\* that hold a quoted text, a NULL or a line break
ExportRows == [1..Len(ExportHeaders) -> CellValues]
LaterRows ==
  { <<NumberValue(1), NullValue>>,
    <<TextValue(<<"\"", ",">>), TextValue(<<"\n">>)>>,
    <<NullValue, NullValue>>,
    <<TextValue(<<>>), TextValue(<<"a", "\"">>)>> }
Selections ==
  {<<>>}
  \cup { <<r>> : r \in ExportRows }
  \cup { <<r, l>> : r \in ExportRows, l \in LaterRows }
  \cup { <<r, l, l>> : r \in LaterRows, l \in LaterRows }

\* exportCsv() and exportJson() of the same table
ExportTable(selected) ==
  /\ exported = NoExport
  /\ exported' = [headers |-> ExportHeaders, selected |-> selected,
                  csv |-> exportCsv(ExportHeaders, selected),
                  json |-> exportJson(ExportHeaders, selected)]
  /\ UNCHANGED <<rows, now, batch, inFlight, last, call, adapterRegistry,
                 lookup, file, db, adding>>

NextExport == \E selected \in Selections : ExportTable(selected)

SpecExport == Init /\ [][NextExport]_vars

(***************************************************************************)
(* Two pipeline invocations that call addJob at the same time.             *)
(***************************************************************************)
\* addJob up to its statement: await this.ensureReady() and the job id
AddJobBegin(c, job) ==
  /\ adding[c].pc = "idle"
  /\ adding' = [adding EXCEPT ![c] =
                  [pc |-> "insert", url |-> job.job_url,
                   platform |-> job.platform,
                   jobId |-> DeriveJobId(job.platform, job.job_url),
                   inserted |-> FALSE,
                   known |-> \E i \in 1..Len(rows) :
                               rows[i].job_url = job.job_url]]
  /\ UNCHANGED <<rows, now, batch, inFlight, last, call, adapterRegistry,
                 lookup, file, db, exported>>

\* the INSERT OR IGNORE statement of the call, one statement of SQLite, and
\* the callback that resolves { jobId, inserted: this.changes > 0 }
AddJobInsert(c) ==
  /\ adding[c].pc = "insert"
  /\ LET record == addJob(rows, JobStub(adding[c].url, adding[c].platform),
                          now)
     IN /\ rows' = record.rows
        /\ adding' = [adding EXCEPT ![c].pc = "done",
                                    ![c].jobId = record.jobId,
                                    ![c].inserted = record.inserted]
  /\ UNCHANGED <<now, batch, inFlight, last, call, adapterRegistry, lookup,
                 file, db, exported>>

\* jobs are added to the table, and then two invocations call addJob
NextConcurrent ==
  \/ \E job \in JobStubs :
       /\ \A c \in Callers : adding[c].pc = "idle"
       /\ AddJob(job, MaxStaged)
  \/ \E c \in Callers, job \in JobStubs : AddJobBegin(c, job)
  \/ \E c \in Callers : AddJobInsert(c)

SpecConcurrent == Init /\ [][NextConcurrent]_vars

(***************************************************************************)
(* Properties of the apply adapters, under SpecAdapter.                    *)
(***************************************************************************)
\* a direct applyAssisted call has been made
Called == call.adapter # Null

\* the attempt got to its final submit step and settled without an error
\* thrown on the way (no failed page capture)
ReachedSubmitStep ==
  /\ call.out.effects.atSubmit
  /\ ~call.out.threw
  /\ call.out.label # "error"

\* the page of the job was loaded in a session that can apply, and page
\* captures work
PageRead ==
  /\ call.env.launchOk
  /\ call.env.session # "none"
  /\ call.env.navFails = 0
  /\ call.env.captureFails = 0

C3_CaptchaBlocks ==
  (Called /\ PageRead /\ "captcha" \in call.env.content) =>
    /\ call.out.status = "blocked"
    /\ call.out.effects.fills = 0
    /\ call.out.effects.uploads = 0
    /\ call.out.effects.submitClicks = 0

(***************************************************************************)
(* Properties of applyJob, under Spec.                                     *)
(***************************************************************************)
\* the row of the job of the last pipeline call
LastRow == rows[RowOf(rows, last.jobId)]

\* the last pipeline call was an applyJob that wrote its result
Applied == last.op = "apply" /\ ~last.threw

IsPrefix(s, t) == Len(s) <= Len(t) /\ SubSeq(t, 1, Len(s)) = s

\* C4: when a two-factor prompt shows during an apply attempt, at the first
\* read of the page or at a later step, applyJob leaves the job blocked with
\* failure_category 'two-factor', and no submit click occurs
C4_TwoFactorBlocks ==
  (Applied /\ "two-factor" \in (last.content \cup last.later)) =>
    /\ LastRow.status = "blocked"
    /\ LastRow.failure_category = "two-factor"
    /\ last.submitClicks = 0

\* C5: after applyJob with an outcome other than submitted, the
\* artifact_paths of the job hold at least one path
C5_ArtifactOnNonSuccess ==
  (Applied /\ LastRow.status \in {"needs_review", "blocked", "failed"}) =>
    LastRow.artifact_paths # <<>>

\* C6: artifact_paths is append-only: every step keeps the paths a job
\* already has, in order, before any it adds
C6_ArtifactsAppendOnly ==
  [][\A i \in 1..Len(rows) :
       /\ i <= Len(rows')
       /\ IsPrefix(rows[i].artifact_paths, rows'[i].artifact_paths)]_vars

(***************************************************************************)
(* Properties of discovery, under SpecTracker.                             *)
(***************************************************************************)
\* a record with this URL and platform exists
Known(url, platform) ==
  \E i \in 1..Len(rows) :
    rows[i].job_url = url /\ rows[i].platform = platform

\* the step is an addJob or a discoverFromFile call (not a tick of the clock,
\* which leaves the summary of the last call as it is)
Discovers == last'.op \in {"addJob", "discover"} /\ now' = now

\* C7: addJob, and discoverFromFile, called with URLs and platforms that
\* already have a record report inserted false and leave every record as it
\* was
C7_IdempotentDiscovery ==
  [][(/\ Discovers
      /\ \A k \in 1..Len(last'.results) :
           Known(last'.results[k].url, last'.results[k].platform)) =>
       /\ rows' = rows
       /\ \A k \in 1..Len(last'.results) : ~last'.results[k].inserted]_vars

\* C7 witness: addJob of the Lever job reported inserted false on a record
\* that was updated after it was discovered
C7_Witness ==
  /\ last.op = "addJob"
  /\ last.results = <<[url |-> UrlLever, platform |-> "lever",
                       inserted |-> FALSE]>>
  /\ LastRow.notes = "seen"
  /\ LastRow.updated_at > LastRow.discovered_at

\* C8: exactly one record per job_url: no two records share a job_url, and
\* every URL given to addJob or discoverFromFile has a record of its own
C8_OneRecordPerUrl ==
  [][/\ \A i, k \in 1..Len(rows') :
          rows'[i].job_url = rows'[k].job_url => i = k
     /\ Discovers =>
          \A k \in 1..Len(last'.results) :
            \E i \in 1..Len(rows') : rows'[i].job_url = last'.results[k].url]_vars

(***************************************************************************)
(* Properties of batch apply, under SpecBatch.                             *)
(***************************************************************************)
\* C9: a failure on one job does not stop the batch: when the command ends,
\* every pulled job has been applied to
C9_BatchContinues ==
  batch.pc \in {"done", "crashed"} => batch.started = batch.queue

\* the pull of BatchStart returns at most limit jobs, each prepared
PulledPrepared ==
  (batch.pc = "idle" /\ batch'.pc = "running") =>
    /\ Len(batch'.queue) <= batch'.limit
    /\ \A k \in 1..Len(batch'.queue) :
         rows[RowOf(rows, batch'.queue[k])].status = "prepared"

\* the loop applies in pull order, one job at a time, each job once
OneAtATime ==
  /\ Len(inFlight) <= 1
  /\ IsPrefix(batch.started, batch.queue)
  /\ IsPrefix(batch.finished, batch.started)
  /\ Len(batch.started) <= Len(batch.finished) + 1
  /\ \A a, b \in 1..Len(batch.queue) :
       batch.queue[a] = batch.queue[b] => a = b
  /\ \A k \in 1..Len(inFlight) :
       inFlight[k].jobId = batch.started[Len(batch.started)]

\* C10: batch apply pulls at most limit jobs, all prepared at pull time, and
\* applies to them in pull order, never with two applyAssisted calls in
\* flight, each pulled job at most once
C10_SequentialBatch == []OneAtATime /\ [][PulledPrepared]_vars

\* C10 witness: a batch with limit 2 has applied to two jobs and ended
C10_Witness ==
  /\ batch.pc = "done"
  /\ batch.limit = 2
  /\ Len(batch.finished) = 2

(***************************************************************************)
(* Properties of the stage functions, under Spec.                          *)
(***************************************************************************)
\* the step is a call of the stage function op on a job of the table (a tick
\* of the clock leaves the summary of the last call as it is)
Stage(op) == last'.op = op /\ last'.jobId # NoId /\ now' = now

\* the row of the job of the stage call of this step, before and after it
RowBefore == rows[RowOf(rows, last'.jobId)]
RowAfter == rows'[RowOf(rows', last'.jobId)]

\* the adapter.enrich call of the step failed with a network or parse error
EnrichFailed == last'.results # <<>> /\ last'.results[1].threw

\* the columns an enrichment failure may touch
FailureColumns == {"failure_category", "updated_at"}

\* C11: when adapter.enrich fails during enrichJob or prepareJob, the job
\* gets a failure_category, and its status and other stored fields stay as
\* they were
C11_EnrichFailureRecorded ==
  [][((Stage("enrich") \/ Stage("prepare")) /\ EnrichFailed) =>
       /\ Truthy(RowAfter.failure_category)
       /\ RowAfter.failure_category # "null"
       /\ \A f \in DOMAIN RowBefore \ FailureColumns :
            RowAfter[f] = RowBefore[f]]_vars

\* the result of the adapter.enrich call of the step
Enriched == last'.results[1]

\* the value of a key of a metadata object, Null when the key is absent
MetaGet(metadata, key) ==
  IF \E p \in metadata : p[1] = key
  THEN (CHOOSE p \in metadata : p[1] = key)[2]
  ELSE Null

MetaKeys(metadata) == { p[1] : p \in metadata }

\* C12: enrichJob merges and never erases: a field the adapter result leaves
\* empty or missing keeps its stored non-empty value (title, company,
\* location, and description inside metadata), and every metadata key that
\* was present is still present
C12_EnrichMerges ==
  [][(Stage("enrich") /\ ~last'.threw /\ last'.results # <<>>) =>
       /\ \A f \in {"title", "company", "location"} :
            (Truthy(RowBefore[f]) /\ ~Truthy(Enriched[f])) =>
              RowAfter[f] = RowBefore[f]
       /\ (/\ Truthy(MetaGet(RowBefore.metadata, "description"))
           /\ ~Truthy(Enriched.description)) =>
            MetaGet(RowAfter.metadata, "description")
              = MetaGet(RowBefore.metadata, "description")
       /\ MetaKeys(RowBefore.metadata) \subseteq MetaKeys(RowAfter.metadata)]_vars

\* the timestamps of a record that are set once
SetOnce == {"enriched_at", "prepared_at", "applied_at"}

\* C13: discovered_at never changes, and enriched_at, prepared_at and
\* applied_at keep the value they have once they hold one
C13_TimestampsSetOnce ==
  [][\A i \in 1..Len(rows) :
       /\ i <= Len(rows')
       /\ rows'[i].discovered_at = rows[i].discovered_at
       /\ \A f \in SetOnce :
            rows[i][f] # NoTime => rows'[i][f] = rows[i][f]]_vars

\* the statuses of the job lifecycle
Statuses ==
  {"discovered", "enriched", "prepared", "submitted", "needs_review",
   "blocked", "failed"}

\* every record has a status of the lifecycle
StatusKnown == \A i \in 1..Len(rows) : rows[i].status \in Statuses

\* a step keeps every record in its place and gives each record it creates
\* the status discovered
RecordsKept ==
  /\ Len(rows') >= Len(rows)
  /\ \A i \in 1..Len(rows) : rows'[i].job_id = rows[i].job_id
  /\ \A i \in (Len(rows) + 1)..Len(rows') : rows'[i].status = "discovered"

\* C14: after any sequence of discoverFromFile, enrichJob, prepareJob and
\* applyJob calls every record has one of the seven statuses; a record is
\* created with status discovered and no call deletes a record
C14_StatusLifecycle == []StatusKnown /\ [][RecordsKept]_vars

\* C14 witness: a record went through enrichJob, prepareJob and an applyJob
\* that left it needs_review
C14_Witness ==
  /\ last.op = "apply" /\ ~last.threw
  /\ LastRow.status = "needs_review"
  /\ LastRow.enriched_at # NoTime
  /\ LastRow.prepared_at # NoTime

\* C15: the stage writes of a job are ordered: an apply write is made only
\* for a job that has a prepare write, and no enrich or prepare write is made
\* for a job that has an apply write
C15_StageOrder ==
  [][/\ (Stage("apply") /\ ~last'.threw) => RowBefore.prepared_at # NoTime
     /\ ((Stage("enrich") \/ Stage("prepare")) /\ rows' # rows) =>
          RowBefore.applied_at = NoTime]_vars

\* C16: applyJob on a job that is already submitted makes no submit click,
\* whatever the adapter and the mode
C16_NoSecondSubmit ==
  [][(Stage("apply") /\ RowBefore.status = "submitted") =>
       last'.submitClicks = 0]_vars

(***************************************************************************)
(* Properties of the Easy Apply form loop, under SpecAdapter.              *)
(***************************************************************************)
\* the direct call ran the form loop of the LinkedIn adapter
FormLoopRan == Called /\ call.out.effects.steps >= 1

\* the Next-like button of some step of the form never advances the form
NeverAdvances == call.env.form.stuckAt >= 1

\* C17: the form loop never runs more than the ceiling number of
\* iterations, and on a form whose Next button never changes state it stops
\* at or before the ceiling with a failed outcome whose reason says the form
\* is stuck
C17_StuckFormBound ==
  FormLoopRan =>
    /\ call.out.effects.steps <= maxAttempts
    /\ NeverAdvances =>
         /\ call.out.status = "failed"
         /\ call.out.reason = "Form stuck - likely missing required fields"

(***************************************************************************)
(* Properties of the adapter registry, under SpecRegistry.                 *)
(***************************************************************************)
\* the adapters of the registry that a lookup of this kind searches
ListOf(kind) ==
  IF kind = "job-source" THEN adapterRegistry.jobSources
  ELSE adapterRegistry.applyAdapters

\* a is the first adapter of the list that handles the URL, or no adapter of
\* the list handles it and a is nothing
FirstMatch(adapters, url, a) ==
  \/ /\ a = NoAdapter
     /\ \A i \in 1..Len(adapters) : ~CanHandleUrl(adapters[i], url)
  \/ \E i \in 1..Len(adapters) :
       /\ adapters[i] = a
       /\ CanHandleUrl(a, url)
       /\ \A k \in 1..(i - 1) : ~CanHandleUrl(adapters[k], url)

LookedUp == lookup.kind # Null

\* the lookup made last returned the first match of its kind
ReturnsFirstMatch ==
  LookedUp =>
    /\ FirstMatch(ListOf(lookup.kind), lookup.url, lookup.adapter)
    /\ lookup.adapter # NoAdapter => lookup.adapter.type = lookup.kind

\* a lookup leaves the registry as it is and repeats the answer of the same
\* lookup made before it; a registration keeps the order of the adapters
\* registered before it
LookupIsPure ==
  /\ (lookup' # lookup /\ lookup'.kind # Null) =>
       adapterRegistry' = adapterRegistry
  /\ (lookup'.kind = lookup.kind /\ lookup'.url = lookup.url) =>
       lookup'.adapter = lookup.adapter
  /\ IsPrefix(adapterRegistry.jobSources, adapterRegistry'.jobSources)
  /\ IsPrefix(adapterRegistry.applyAdapters, adapterRegistry'.applyAdapters)

\* C18: getJobSourceForUrl and getApplyAdapterForUrl return the first
\* adapter of their kind, in registration order, whose canHandleUrl accepts
\* the URL; a repeated lookup returns the same adapter and no lookup changes
\* the registry
C18_FirstMatchLookup == []ReturnsFirstMatch /\ [][LookupIsPure]_vars

\* C18 witness: in a registry where the generic form adapter was registered
\* before the Greenhouse apply adapter, the lookup of a Greenhouse URL
\* returned the generic form adapter
C18_Witness ==
  /\ adapterRegistry.applyAdapters
       = <<GenericFormApplyAdapter, GreenhouseApplyAdapter>>
  /\ lookup.kind = "apply" /\ lookup.url = UrlGreenhouseA
  /\ lookup.adapter = GenericFormApplyAdapter

\* the registry is the one createDefaultRegistry builds
IsDefault == adapterRegistry = createDefaultRegistry

\* a platform-specific apply adapter accepts the URL
PlatformApply(url) ==
  \E a \in Adapters :
    a.type = "apply" /\ a.id # "generic-form" /\ CanHandleUrl(a, url)

\* the job source of the platform of the URL, if it has one
PlatformSource(url) ==
  IF Contains(url, PatGreenhouse) THEN GreenhouseJobSourceAdapter
  ELSE IF Contains(url, PatLever) THEN LeverJobSourceAdapter
  ELSE IF Contains(url, PatWorkday) THEN WorkdayJobSourceAdapter
  ELSE NoAdapter

\* C19: in the default registry an apply lookup always resolves, to the
\* generic form adapter only when no platform-specific apply adapter accepts
\* the URL; a job-source lookup resolves to the source of a Greenhouse, Lever
\* or Workday URL and returns nothing for any other URL
C19_DefaultRegistryRouting ==
  (IsDefault /\ LookedUp) =>
    /\ lookup.kind = "apply" =>
         /\ lookup.adapter # NoAdapter
         /\ lookup.adapter.type = "apply"
         /\ lookup.adapter.id = "generic-form" <=> ~PlatformApply(lookup.url)
         /\ lookup.adapter.id # "generic-form" =>
              CanHandleUrl(lookup.adapter, lookup.url)
    /\ lookup.kind = "job-source" =>
         lookup.adapter = PlatformSource(lookup.url)

\* C19 witness: the default registry resolved the apply lookup of a URL of
\* an unknown domain to the generic form adapter
C19_Witness ==
  /\ IsDefault
  /\ lookup.kind = "apply" /\ lookup.url = UrlUnknown
  /\ lookup.adapter.id = "generic-form"

(***************************************************************************)
(* Properties of discoverFromFile, under SpecDiscover.                     *)
(***************************************************************************)
\* the lines of a file that are not ignored, trimmed, in file order: a line
\* is ignored when it is blank or starts with '#'
NotIgnored(lines) ==
  SelectSeq([i \in 1..Len(lines) |-> Trim(lines[i])],
            LAMBDA line : line # <<>> /\ line[1] # 35)

\* the label of the first job source of the default registry that accepts
\* the URL, 'generic' when none does
PlatformLabel(url) ==
  IF CanHandleUrl(GreenhouseJobSourceAdapter, url) THEN "greenhouse"
  ELSE IF CanHandleUrl(LeverJobSourceAdapter, url) THEN "lever"
  ELSE IF CanHandleUrl(WorkdayJobSourceAdapter, url) THEN "workday"
  ELSE "generic"

\* what a discoverFromFile step that read the lines of file' returns and
\* leaves in the table
DiscoveryOutcome ==
  LET urls     == NotIgnored(file')
      outcomes == last'.results
      created  == (Len(rows) + 1)..Len(rows')
  IN
  /\ Len(outcomes) = Len(urls)
  /\ IsPrefix(rows, rows')
  /\ Len(rows') =
       Len(rows) + Cardinality({k \in 1..Len(outcomes) : outcomes[k].inserted})
  /\ \A k \in 1..Len(outcomes) :
       /\ outcomes[k].url = urls[k]
       /\ outcomes[k].jobId.platform = PlatformLabel(urls[k])
       /\ outcomes[k].inserted =>
            \E i \in created :
              /\ rows'[i].job_id = outcomes[k].jobId
              /\ rows'[i].job_url = urls[k]
              /\ rows'[i].status = "discovered"
              /\ rows'[i].platform = PlatformLabel(urls[k])
       /\ ~outcomes[k].inserted =>
            \E i \in 1..Len(rows') :
              /\ rows'[i].job_id = outcomes[k].jobId
              /\ i \in created =>
                   \E j \in 1..(k - 1) :
                     outcomes[j].inserted /\ outcomes[j].jobId = outcomes[k].jobId
  /\ \A i, j \in created :
       i < j =>
         \E a, b \in 1..Len(outcomes) :
           /\ a < b
           /\ outcomes[a].jobId = rows'[i].job_id
           /\ outcomes[b].jobId = rows'[j].job_id

AdvancingForm ==
  /\ call.env.form.stuckAt = 0
  /\ call.env.form.n + 1 <= maxAttempts
  /\ call.env.form.final = "submit"

\* C26: a form that advances on every Next click and has no more steps than
\* the iteration ceiling is never reported as stuck: the form loop reaches
\* the submit step, however many steps in a row show the same Next label
C26_AdvancingFormNotStuck ==
  (FormLoopRan /\ AdvancingForm) =>
    /\ call.out.effects.atSubmit
    /\ call.out.reason # "Form stuck - likely missing required fields"

\* the call went to the generic form adapter, directly or through the
\* Greenhouse, Lever or Workday apply adapter, and the browser was launched
GenericLaunched ==
  /\ Called /\ call.adapter # "linkedin-apply"
  /\ call.out.effects.launched

\* C25: navigateWithRetries with retries = r makes at most r + 1 navigation
\* attempts and stops at the first one that succeeds, and when every attempt
\* fails applyAssisted of the generic form adapter ends with a failed
\* outcome whose reason is the navigation error
C25_BoundedNavigation ==
  (GenericLaunched /\ call.env.pageOk) =>
    /\ call.out.effects.navAttempts <= NavRetries + 1
    /\ call.env.navFails <= NavRetries =>
         call.out.effects.navAttempts = call.env.navFails + 1
    /\ call.env.navFails > NavRetries =>
         /\ ~call.out.threw
         /\ call.out.status = "failed"
         /\ call.out.reason = "navigation failed"

\* C29: every browser the generic form adapter launched is closed when
\* applyAssisted settles, whatever the outcome, also when the call rejects
C29_BrowserClosed ==
  GenericLaunched => call.out.effects.closed

(***************************************************************************)
(* Further properties of the pipeline stages, under Spec.                  *)
(***************************************************************************)
\* C27: once a job has status submitted, no later applyJob call on it
\* changes its status to a non-submitted value
C27_SubmittedIsFinal ==
  [][(Stage("apply") /\ RowBefore.status = "submitted") =>
       RowAfter.status = "submitted"]_vars

\* the step is a call of enrichJob, prepareJob or applyJob
StageCall == last'.op \in {"enrich", "prepare", "apply"} /\ now' = now

\* the records the id or URL names
Matching(ref) ==
  { i \in 1..Len(rows) :
      IF ref.kind = "id" THEN rows[i].job_id = ref.id
      ELSE rows[i].job_url = ref.url }

\* C22: enrichJob, prepareJob and applyJob called with an id or URL that
\* matches no record throw 'Job not found' and write nothing, generate no
\* document and call no adapter; a stage call that goes on has a record
C22_JobNotFound ==
  [][StageCall =>
       IF last'.jobId = NoId
       THEN /\ Matching(last'.results[1].ref) = {}
            /\ last'.threw
            /\ last'.results[1].error = "Job not found"
            /\ rows' = rows
            /\ last'.status = Null /\ last'.submitClicks = 0
       ELSE \E i \in 1..Len(rows) : rows[i].job_id = last'.jobId]_vars

\* C22 witness: applyJob was called with the URL of a job that has no
\* record, while another job has one, and threw
C22_Witness ==
  /\ last.op = "apply" /\ last.jobId = NoId /\ last.threw
  /\ last.results[1].ref.kind = "url"
  /\ Len(rows) >= 1
  /\ \A i \in 1..Len(rows) : rows[i].job_url # last.results[1].ref.url

(***************************************************************************)
(* Properties of updateJob and getJob, under SpecUpdate.                   *)
(***************************************************************************)
\* the step is an updateJob call; Patch is the updates it was given
Updates == last'.op = "updateJob" /\ now' = now
Patch == last'.results[1]

\* every other record, and every field of the record that the call does
\* not name, except updated_at, is as it was
FrameKept ==
  /\ Len(rows') = Len(rows)
  /\ \A i \in 1..Len(rows) :
       IF rows[i].job_id # last'.jobId THEN rows'[i] = rows[i]
       ELSE \A f \in DOMAIN rows[i] \ (DOMAIN Patch \cup {"updated_at"}) :
              rows'[i][f] = rows[i][f]

\* getJob after the call returns the values the call was given
ReadsBack ==
  \A f \in DOMAIN Patch : getJob(rows', last'.jobId)[f] = Patch[f]

\* C21: updateJob changes only the named fields and updated_at of the record
\* with that job_id, and a following getJob returns the patched values
C21_UpdateFrame ==
  [][Updates => FrameKept /\ ReadsBack]_vars

(***************************************************************************)
(* Properties of the options of applyJob, under SpecApply.                 *)
(***************************************************************************)
\* the options the applyJob call of this step was given
Options == call'.options

\* C28: applyJob called with mode 'auto' and no dryRun option never submits:
\* no submit click happens and the outcome it records is not submitted;
\* an outcome of submitted needs mode 'auto' with an explicit dryRun false,
\* which is what the command line passes for --mode auto without --dry-run
C28_AutoNeedsExplicitDryRunFalse ==
  [][Stage("apply") =>
       /\ (Options.mode = "auto" /\ Options.dryRun = Null) =>
            /\ last'.submitClicks = 0
            /\ last'.status # "submitted"
            /\ (rows' # rows => RowAfter.status # "submitted")
       /\ (last'.status = "submitted" \/ last'.submitClicks > 0) =>
            /\ Options.mode = "auto" /\ Options.dryRun = "false"
            /\ CliDryRun(Null, Options.mode) = Options.dryRun]_vars

\* C28 witness: an applyJob call with mode 'auto' and no dryRun stopped at
\* the submit step of the form and recorded needs_review
C28_Witness ==
  /\ last.op = "apply" /\ last.jobId # NoId
  /\ call.options.mode = "auto" /\ call.options.dryRun = Null
  /\ last.status = "needs_review" /\ last.submitClicks = 0
  /\ LastRow.status = "needs_review"
  /\ LastRow.applied_at # NoTime

(***************************************************************************)
(* Properties of a tracker on an existing database file, under SpecSchema. *)
(***************************************************************************)
\* init() resolves in this step
Initializes == ~db.ready /\ db'.ready

\* every expected column is in the table
Migrated(table) == ExpectedColumns \subseteq table.columns

\* the rows of the table and the values of their columns are as they were
StoredKept ==
  /\ Len(db'.table.stored) = Len(db.table.stored)
  /\ \A i \in 1..Len(db.table.stored) :
       \A c \in db.table.columns :
         /\ c \in db'.table.columns
         /\ db'.table.stored[i][c] = db.table.stored[i][c]

\* C23: initializing the tracker on an existing table that lacks any subset
\* of the expected columns adds every missing expected column before any
\* addJob, updateJob or getJob statement runs, and keeps the existing rows
\* and their values
C23_SchemaMigration ==
  /\ [](db.op # Null => db.ready /\ Migrated(db.table) /\ db.error = Null)
  /\ [][Initializes => Migrated(db'.table) /\ StoredKept]_vars

(***************************************************************************)
(* Properties of the exports, under SpecExport.                            *)
(***************************************************************************)
\* a reader of CSV text with the standard quoting rules: fields are split
\* at commas and records at line breaks outside quotes, a field may be
\* enclosed in double quotes, and inside them a double quote is written
\* twice.  mode: "start" of a field, "plain" inside an unquoted field,
\* "quoted" inside quotes, "closing" after a quote seen inside quotes
RECURSIVE ReadCsv(_, _, _, _, _, _)
ReadCsv(text, i, mode, field, record, records) ==
  IF i > Len(text)
  THEN IF mode = "start" /\ record = <<>> THEN records
       ELSE Append(records, Append(record, field))
  ELSE
    LET c == text[i] IN
    IF mode = "quoted"
    THEN IF c = "\""
         THEN ReadCsv(text, i + 1, "closing", field, record, records)
         ELSE ReadCsv(text, i + 1, "quoted", Append(field, c), record, records)
    ELSE IF c = "\"" /\ mode = "closing"
    THEN ReadCsv(text, i + 1, "quoted", Append(field, c), record, records)
    ELSE IF c = "\"" /\ mode = "start"
    THEN ReadCsv(text, i + 1, "quoted", field, record, records)
    ELSE IF c = ","
    THEN ReadCsv(text, i + 1, "start", <<>>, Append(record, field), records)
    ELSE IF c = "\n"
    THEN ReadCsv(text, i + 1, "start", <<>>, <<>>,
                 Append(records, Append(record, field)))
    ELSE ReadCsv(text, i + 1, "plain", Append(field, c), record, records)

ParseCsv(text) == ReadCsv(text, 1, "start", <<>>, <<>>, <<>>)

\* the text of a value of the JSON export: a number in decimal digits, a
\* null as the empty text
TextOf(value) ==
  IF value.type = "null" THEN <<>> ELSE String(value)

\* an export was made; Parsed is what a CSV reader gets from its CSV text
Exported == exported # NoExport
Parsed == ParseCsv(exported.csv)

\* C24: the CSV export, read with the standard quoting rules, has one row
\* per record after its header row, and the fields of each row are the
\* values of the JSON export of the same record, also for values with
\* double quotes, commas or line breaks
C24_CsvRoundTrip ==
  Exported =>
    IF exported.json = <<>> THEN Parsed = <<>>
    ELSE /\ Len(Parsed) = Len(exported.json) + 1
         /\ Parsed[1] = exported.headers
         /\ \A i \in 1..Len(exported.json) :
              /\ Len(Parsed[i + 1]) = Len(exported.headers)
              /\ \A k \in 1..Len(exported.headers) :
                   Parsed[i + 1][k] = TextOf(exported.json[i][k])

\* C24 witness: two records were exported, one with a text that holds a
\* double quote and a comma and one that holds a line break
C24_Witness ==
  /\ Exported
  /\ Len(exported.json) = 2
  /\ exported.json[1][2] = TextValue(<<"\"", ",">>)
  /\ exported.json[2][2] = TextValue(<<"\n">>)
  /\ Len(Parsed) = 3
  /\ Parsed[2][2] = <<"\"", ",">>

(***************************************************************************)
(* Properties of concurrent addJob calls, under SpecConcurrent.            *)
(***************************************************************************)
\* both invocations have their answer, they passed the same URL and
\* platform, and the URL had no record when either call began
BothAdded == \A c \in Callers : adding[c].pc = "done"
SameJob ==
  /\ adding[1].url = adding[2].url
  /\ adding[1].platform = adding[2].platform
NewUrl == \A c \in Callers : ~adding[c].known

\* C30: two invocations that call addJob for the same URL and platform at
\* the same time get inserted true once and inserted false once, the same
\* jobId, and exactly one record of that URL exists afterwards
C30_ConcurrentAddJob ==
  (BothAdded /\ SameJob /\ NewUrl) =>
    /\ adding[1].inserted # adding[2].inserted
    /\ adding[1].jobId = adding[2].jobId
    /\ Cardinality({ i \in 1..Len(rows) : rows[i].job_url = adding[1].url }) = 1
=============================================================================
